---------------------------- MODULE Spec2Model ----------------------------
(***************************************************************************)
(* A model of the recursive-descent parser of src/index.js.                *)
(*                                                                         *)
(* The parser is modelled as a stack machine.  Every method of             *)
(* Parser.prototype is a kind of frame (fn) whose local variables are the  *)
(* fields of the frame; a call pushes a frame, a return pops it and leaves *)
(* the returned value in ret.  One action is one step of a method: at most *)
(* one token is read per step.  The token stream is produced by the lexer, *)
(* which is the environment: the token after the current one is chosen     *)
(* when the parser advances to it, so every token sequence over the token  *)
(* kinds of one family (Lexicon), of at most Budget(family) tokens         *)
(* followed by end-of-stream, is explored.                                 *)
(*                                                                         *)
(* Abstractions: the filename field of nodes and tokens is constant and    *)
(* left out; the payload (val) of a token is a string naming the token's   *)
(* position, so that distinct tokens carry distinct payloads; the          *)
(* advisory console warnings are not modelled.  Nodes are values: where    *)
(* the code assigns to an object that another method built and returned,   *)
(* the frame holds the changed value and the assignment is recorded in     *)
(* written.                                                                *)
(***************************************************************************)
EXTENDS Integers, Sequences, FiniteSets, TLC

VARIABLES
  toks,      \* TokenStream._tokens as far as it is known: deferred tokens, then the current token
  input,     \* the tokens the lexer has delivered so far, in order
  lexicon,   \* the family of token kinds the source file is written in
  stack,     \* the call stack of the parser, the running method last
  ret,       \* the value returned by the last method that returned
  inMixin,   \* Parser.inMixin
  status,    \* "running", "done" (parse() returned) or "error" (error() threw)
  err,       \* the error thrown, when status = "error"
  written    \* the last assignment to a field of a node that the assigning method
             \* did not build but received from a method it called

vars == <<toks, input, lexicon, stack, ret, inMixin, status, err, written>>

(***************************************************************************)
(* Bounds.                                                                 *)
(***************************************************************************)
MaxTokens == 5

(***************************************************************************)
(* Values.                                                                 *)
(***************************************************************************)
Null == [type |-> "null"]
Undefined == [type |-> "undefined"]
NoError == [code |-> "none"]

\* no node received from a callee has been assigned to
NoWrite == [by |-> "none"]

\* the method `by` has changed the node it received as `node` into `now`
Write(by, node, now) == [by |-> by, node |-> node, now |-> now]

\* The payload of the token at position ln.
Val(ln) == "v" \o ToString(ln)

\* Token.line of the token at position ln: every token is on a line of its own.
LineOf(ln) == ln

(***************************************************************************)
(* The lexer's output.  A shape is a token without its position.           *)
(***************************************************************************)
Kind(t) == [type |-> t]

AttributeShape(n) == [type |-> "attribute", name |-> n, mustEscape |-> TRUE]

CodeShape(b) == [type |-> "code", buffer |-> b, mustEscape |-> TRUE]

PathShape(p) == [type |-> "path", val |-> p]

TagShape(n) == [type |-> "tag", val |-> n]

\* path values, as sequences of pieces: "a.jade", " a.jade " and "a.jade.txt"
JadePath == <<"a", ".jade">>
PaddedJadePath == <<" ", "a", ".jade", " ">>
RawPath == <<"a", ".jade", ".txt">>

Lexed(shape, ln) ==
  LET base == shape @@ [line |-> LineOf(ln), val |-> Val(ln)] IN
  CASE shape.type = "each" -> base @@ [key |-> "k" \o ToString(ln), code |-> "o" \o ToString(ln)]
    [] shape.type \in {"mixin", "call"} -> base @@ [args |-> "a" \o ToString(ln)]
    [] shape.type = "block" -> [val |-> <<Val(ln), " ">>, mode |-> "replace"] @@ base
    [] shape.type \in {"interpolated-code", "comment"} -> base @@ [buffer |-> TRUE, mustEscape |-> TRUE]
    [] OTHER -> base

Eos == Kind("eos")

Families ==
  {"tags", "code", "text", "html", "mixin", "if", "include", "each", "case", "pipeless",
   "blockcode", "filter", "misc", "nesting", "branches",
   "coalesce", "definitions"}

Lexicon(f) ==
  CASE f = "tags" ->
         {TagShape("div"), Kind("id"), Kind("class"), Kind("start-attributes"),
          AttributeShape("id"), AttributeShape("class"), AttributeShape("x"),
          Kind("end-attributes"), Kind("call"), Kind("interpolation"), Eos}
    [] f = "code" ->
         {TagShape("div"), Kind("call"), Kind("interpolation"), CodeShape(TRUE),
          CodeShape(FALSE), Kind("indent"), Kind("outdent"), Eos}
    [] f = "text" ->
         {TagShape("a"), Kind("text"), Kind("interpolated-code"), Kind("newline"),
          Kind("start-jade-interpolation"), Kind("end-jade-interpolation"), Eos}
    [] f = "html" ->
         {Kind("text-html"), Kind("indent"), Kind("outdent"), Kind("newline"), Kind("dot"),
          Kind("yield"), Eos}
    [] f = "mixin" ->
         {Kind("mixin"), Kind("mixin-block"), Kind("indent"), Kind("outdent"),
          TagShape("div"), Kind("call"), Kind("block"), Eos}
    [] f = "if" ->
         {Kind("if"), Kind("else-if"), Kind("else"), Kind("indent"), Kind("outdent"),
          Kind("newline"), Kind("yield"), Eos}
    [] f = "include" ->
         {Kind("include"), Kind("filter"), PathShape(JadePath), PathShape(PaddedJadePath),
          PathShape(RawPath), Kind("indent"), Kind("outdent"), Kind("extends"), Eos}
    [] f = "each" ->
         {Kind("each"), Kind("else"), Kind("indent"), Kind("outdent"), Kind("while"),
          Kind("yield"), Eos}
    [] f = "case" ->
         {Kind("case"), Kind("when"), Kind("default"), Kind("indent"), Kind("outdent"),
          Kind("newline"), Kind("comment"), Kind(":"), Kind("yield"), Eos}
    [] f = "pipeless" ->
         {Kind("comment"), Kind("start-pipeless-text"), Kind("end-pipeless-text"),
          Kind("text"), Kind("newline"), Kind("interpolated-code"),
          Kind("start-jade-interpolation"), Kind("end-jade-interpolation"), Eos}
    [] f = "blockcode" ->
         {Kind("blockcode"), Kind("dot"), Kind("start-pipeless-text"),
          Kind("end-pipeless-text"), Kind("text"), Kind("newline"), Eos}
    [] f = "filter" ->
         {Kind("filter"), Kind("include"), Kind("start-attributes"), AttributeShape("x"),
          Kind("end-attributes"), Kind("text"), Kind("start-pipeless-text"),
          Kind("end-pipeless-text"), Eos}
    [] f = "branches" ->
         {Kind("case"), Kind("when"), Kind("default"), Kind("indent"), Kind("outdent"),
          Kind("newline"), Eos}
    [] f = "coalesce" ->
         {Kind("text-html"), Kind("indent"), Kind("outdent"), Kind("yield"), Eos}
    [] f = "definitions" ->
         {Kind("mixin"), Kind("call"), Kind("indent"), Kind("outdent"), Eos}
    [] f = "nesting" ->
         {Kind("mixin"), Kind("mixin-block"), Kind("indent"), Kind("if"), Kind("each"), Eos}
    [] f = "misc" ->
         {TagShape("div"), Kind("doctype"), Kind("&attributes"), Kind("slash"), Kind(":"),
          Kind("dot"), Kind("start-pipeless-text"), Kind("end-pipeless-text"),
          Kind("interpolation"), Kind("call"), Kind("text-html"), Eos}

\* The longest file of a family, in tokens before the end of the stream.
Budget(f) ==
  CASE f \in {"code", "html", "pipeless", "blockcode", "filter"} -> MaxTokens - 1
    [] f = "misc" -> MaxTokens - 2
    [] f = "each" -> MaxTokens + 1
    [] f = "branches" -> MaxTokens + 3
    [] f = "coalesce" -> MaxTokens + 1
    [] f = "definitions" -> MaxTokens + 1
    [] OTHER -> MaxTokens

\* The tokens the lexer may deliver next: anything of the lexicon, and only the
\* end of the stream once the file has reached its longest.
NextTokens ==
  IF Len(input) >= Budget(lexicon) THEN {Lexed(Eos, Len(input) + 1)}
  ELSE {Lexed(s, Len(input) + 1) : s \in Lexicon(lexicon)}

(***************************************************************************)
(* Token cursor.                                                           *)
(***************************************************************************)
peek == Head(toks)

PeekType == IF toks = <<>> THEN "<past the end>" ELSE peek.type

\* The stream after advance(), the lexer delivering t if the buffer runs empty.
Shifted(t) ==
  IF Len(toks) > 1 THEN Tail(toks)
  ELSE IF peek.type = "eos" THEN <<>>
  ELSE <<t>>

\* an advance() that leaves the current token in the stream
advanceNothing(t) == UNCHANGED <<toks, input>>

advance(t) ==
  /\ toks' = Shifted(t)
  /\ input' = IF Len(toks) > 1 \/ peek.type = "eos" THEN input ELSE Append(input, t)

\* a defer that queues the token behind the tokens already in the stream
DeferredBehind(tok) == toks \o <<tok>>

\* TokenStream.defer: the token is replayed before every other token.
Deferred(tok) == <<tok>> \o toks

(***************************************************************************)
(* Stack frames.                                                           *)
(***************************************************************************)
Top == stack[Len(stack)]

\* The frame of the method that called the running one.
Caller == stack[Len(stack) - 1]

Popped == SubSeq(stack, 1, Len(stack) - 1)

At(fn, pc) ==
  /\ status = "running"
  /\ stack # <<>>
  /\ Top.fn = fn
  /\ Top.pc = pc

Replaced(frame) == [stack EXCEPT ![Len(stack)] = frame]

\* The running method goes on as `frame`.
Goto(frame) == stack' = Replaced(frame)

\* The running method goes on as `frame` once the method `callee` has returned.
Call(frame, callee) == stack' = Append(Replaced(frame), callee)

\* The running method returns v.
Return(v) ==
  /\ stack' = Popped
  /\ ret' = v

\* Parser.error
Throw(code, token) ==
  /\ status' = "error"
  /\ err' = [code |-> code, type |-> token.type, line |-> token.line]
  /\ UNCHANGED <<toks, input, lexicon, written, stack, ret, inMixin>>

Frame(fn) == [fn |-> fn, pc |-> "start"]

(***************************************************************************)
(* Nodes.                                                                  *)
(***************************************************************************)
initBlock(line, nodes) == [type |-> "Block", nodes |-> nodes, line |-> line]

emptyBlock(line) == initBlock(line, <<>>)


HasField(node, f) == f \in DOMAIN node

\* Number of tokens read and not pushed back: advance() adds one, defer() takes one.
Consumed == Len(input) - Len(toks)

\* Consumed in the state a step leads to.
ConsumedNext == Len(input') - Len(toks')

TypeOf(s) == IF s = <<>> THEN "<past the end>" ELSE Head(s).type

\* A step that changes neither the configuration of the lexer nor the parser's outcome.
Quiet == UNCHANGED <<lexicon, written, status, err>>

NoRead == UNCHANGED <<toks, input>>

\* The running method is back at the head of its loop.
Iterate(frame) == Goto([frame EXCEPT !.pc = "loop", !.mark = ConsumedNext])

(***************************************************************************)
(* Frames of the methods that take arguments or are entered at their loop. *)
(***************************************************************************)
\* parseExpr(); entry records the tokens consumed when the dispatcher is called
exprFrame(entry) == [fn |-> "parseExpr", pc |-> "start", entry |-> entry]

\* parseText(options), entered on the token s
textFrame(block, s) ==
  [fn |-> "parseText", pc |-> "loop", block |-> block, tags |-> <<>>,
   lineno |-> s.line, tokType |-> s.type, mark |-> Consumed]

\* parseTextHtml()
textHtmlFrame ==
  [fn |-> "parseTextHtml", pc |-> "loop", nodes |-> <<>>, currentNode |-> 0, taken |-> FALSE,
   mark |-> Consumed]

\* parseCode(noBlock)
codeFrame(noBlock) == [fn |-> "parseCode", pc |-> "start", noBlock |-> noBlock]

\* tag(tag, options)
tagFrame(tag, selfClosingAllowed, mark) ==
  [fn |-> "tag", pc |-> "loop", tag |-> tag, seenAttrs |-> FALSE, attributeNames |-> <<>>,
   selfClosingAllowed |-> selfClosingAllowed, mark |-> mark]

\* attrs(attributeNames); hasNames is false when the argument is left out
attrsFrame(hasNames, attributeNames) ==
  [fn |-> "attrs", pc |-> "start", hasNames |-> hasNames, attributeNames |-> attributeNames,
   attrs |-> <<>>]

(***************************************************************************)
(* parse: the top-level loop.                                              *)
(***************************************************************************)
parseFrame == [fn |-> "parse", pc |-> "loop", block |-> emptyBlock(0), mark |-> 0]

parse_eos ==
  /\ At("parse", "loop")
  /\ PeekType = "eos"
  /\ status' = "done"
  /\ Return(Top.block)
  /\ NoRead
  /\ UNCHANGED <<lexicon, written, inMixin, err>>

parse_newline ==
  /\ At("parse", "loop")
  /\ PeekType = "newline"
  /\ \E t \in NextTokens : advance(t)
  /\ Iterate(Top)
  /\ UNCHANGED <<ret, inMixin>>
  /\ Quiet

parse_textHtml ==
  /\ At("parse", "loop")
  /\ PeekType = "text-html"
  /\ Call([Top EXCEPT !.pc = "textHtml"], textHtmlFrame)
  /\ NoRead
  /\ UNCHANGED <<ret, inMixin>>
  /\ Quiet

parse_textHtmlRet ==
  /\ At("parse", "textHtml")
  /\ NoRead
  /\ Iterate([Top EXCEPT !.block.nodes = @ \o ret.nodes])
  /\ ret' = Null
  /\ UNCHANGED inMixin
  /\ Quiet

parse_expr ==
  /\ At("parse", "loop")
  /\ PeekType \notin {"eos", "newline", "text-html"}
  /\ Call([Top EXCEPT !.pc = "expr"], exprFrame(Consumed))
  /\ NoRead
  /\ UNCHANGED <<ret, inMixin>>
  /\ Quiet

\* if (expr) block.nodes.push(expr): undefined is not pushed
parse_exprRet ==
  /\ At("parse", "expr")
  /\ NoRead
  /\ Iterate([Top EXCEPT !.block.nodes = IF ret = Undefined THEN @ ELSE Append(@, ret)])
  /\ ret' = Null
  /\ UNCHANGED inMixin
  /\ Quiet

(***************************************************************************)
(* parseExpr: the dispatcher.                                              *)
(***************************************************************************)
Production(type) ==
  CASE type = "tag" -> "parseTag"
    [] type = "mixin" -> "parseMixin"
    [] type = "block" -> "parseBlock"
    [] type = "mixin-block" -> "parseMixinBlock"
    [] type = "case" -> "parseCase"
    [] type = "extends" -> "parseExtends"
    [] type = "include" -> "parseInclude"
    [] type = "doctype" -> "parseDoctype"
    [] type = "filter" -> "parseFilter"
    [] type = "comment" -> "parseComment"
    [] type \in {"text", "interpolated-code", "start-jade-interpolation"} -> "parseText"
    [] type = "text-html" -> "parseTextHtml"
    [] type = "dot" -> "parseDot"
    [] type = "each" -> "parseEach"
    [] type = "code" -> "parseCode"
    [] type = "blockcode" -> "parseBlockCode"
    [] type = "if" -> "parseConditional"
    [] type = "while" -> "parseWhile"
    [] type = "call" -> "parseCall"
    [] type = "interpolation" -> "parseInterpolation"
    [] type = "yield" -> "parseYield"
    [] type \in {"id", "class"} -> "defer"
    [] OTHER -> "error"

\* the frame of the production the dispatcher calls on the current token
ProductionFrame(fn) ==
  CASE fn = "parseText" -> textFrame(TRUE, peek)
    [] fn = "parseCode" -> codeFrame(FALSE)
    [] OTHER -> Frame(fn)

\* case ...: return this.parseX();
parseExpr_dispatch ==
  /\ At("parseExpr", "start")
  /\ Production(PeekType) \notin {"parseTextHtml", "defer", "error"}
  /\ Call([Top EXCEPT !.pc = "ret"], ProductionFrame(Production(PeekType)))
  /\ NoRead
  /\ UNCHANGED <<ret, inMixin>>
  /\ Quiet

\* case 'text-html': return this.initBlock(this.peek().line, this.parseTextHtml());
parseExpr_textHtml ==
  /\ At("parseExpr", "start")
  /\ Production(PeekType) = "parseTextHtml"
  /\ Call([Top EXCEPT !.pc = "textHtmlRet"] @@ [line |-> peek.line], textHtmlFrame)
  /\ NoRead
  /\ UNCHANGED <<ret, inMixin>>
  /\ Quiet

parseExpr_textHtmlRet ==
  /\ At("parseExpr", "textHtmlRet")
  /\ Return(initBlock(Top.line, ret.nodes))
  /\ NoRead
  /\ UNCHANGED inMixin
  /\ Quiet

\* the token the dispatcher synthesizes in front of a bare id or class
\* a generic tag token placed on the line after the shorthand
DivTokenOnNextLine(line) == [type |-> "tag", val |-> "div", line |-> line + 1]

DivToken(line) == [type |-> "tag", val |-> "div", line |-> line]

\* case 'id': case 'class': this.tokens.defer({type: 'tag', ...}); return this.parseExpr();
parseExpr_defer ==
  /\ At("parseExpr", "start")
  /\ Production(PeekType) = "defer"
  /\ toks' = Deferred(DivToken(peek.line))
  /\ UNCHANGED input
  /\ Call([Top EXCEPT !.pc = "deferred"], exprFrame(ConsumedNext))
  /\ UNCHANGED <<ret, inMixin>>
  /\ Quiet

parseExpr_unexpected ==
  /\ At("parseExpr", "start")
  /\ Production(PeekType) = "error"
  /\ Throw("INVALID_TOKEN", peek)

\* the value of the production is the value of the dispatcher
\* return this.parseXxx(); return this.parseExpr();
parseExpr_ret ==
  /\ At("parseExpr", "ret") \/ At("parseExpr", "deferred")
  /\ Return(ret)
  /\ NoRead
  /\ UNCHANGED inMixin
  /\ Quiet

(***************************************************************************)
(* block: indent expr* outdent.                                            *)
(***************************************************************************)
block_indent ==
  /\ At("block", "start")
  /\ IF PeekType = "indent"
       THEN /\ \E t \in NextTokens : advance(t)
            /\ Goto([fn |-> "block", pc |-> "loop", block |-> emptyBlock(peek.line),
                     mark |-> ConsumedNext])
            /\ UNCHANGED <<ret, inMixin>>
            /\ Quiet
       ELSE Throw("INVALID_TOKEN", peek)

block_newline ==
  /\ At("block", "loop")
  /\ PeekType = "newline"
  /\ \E t \in NextTokens : advance(t)
  /\ Iterate(Top)
  /\ UNCHANGED <<ret, inMixin>>
  /\ Quiet

block_textHtml ==
  /\ At("block", "loop")
  /\ PeekType = "text-html"
  /\ Call([Top EXCEPT !.pc = "textHtml"], textHtmlFrame)
  /\ NoRead
  /\ UNCHANGED <<ret, inMixin>>
  /\ Quiet

block_textHtmlRet ==
  /\ At("block", "textHtml")
  /\ NoRead
  /\ Iterate([Top EXCEPT !.block.nodes = @ \o ret.nodes])
  /\ ret' = Null
  /\ UNCHANGED inMixin
  /\ Quiet

block_expr ==
  /\ At("block", "loop")
  /\ PeekType \notin {"outdent", "newline", "text-html"}
  /\ Call([Top EXCEPT !.pc = "expr"], exprFrame(Consumed))
  /\ NoRead
  /\ UNCHANGED <<ret, inMixin>>
  /\ Quiet

\* block.nodes.push(expr), whatever expr is
block_exprRet ==
  /\ At("block", "expr")
  /\ NoRead
  /\ Iterate([Top EXCEPT !.block.nodes = Append(@, ret)])
  /\ ret' = Null
  /\ UNCHANGED inMixin
  /\ Quiet

\* this.expect('outdent'); return block;
block_outdent ==
  /\ At("block", "loop")
  /\ PeekType = "outdent"
  /\ \E t \in NextTokens : advance(t)
  /\ Return(Top.block)
  /\ UNCHANGED inMixin
  /\ Quiet


(***************************************************************************)
(* parseText: the text assembler.                                          *)
(***************************************************************************)
TextNode(val, line) == [type |-> "Text", val |-> val, line |-> line]

InlineCode(tok) ==
  [type |-> "Code", val |-> tok.val, buffer |-> tok.buffer,
   mustEscape |-> (tok.mustEscape # FALSE), isInline |-> TRUE, line |-> tok.line]

\* case 'text'
parseText_text ==
  /\ At("parseText", "loop")
  /\ Top.tokType = "text"
  /\ \E t \in NextTokens :
       /\ advance(t)
       /\ Iterate([Top EXCEPT !.tags = Append(@, TextNode(peek.val, peek.line)),
                              !.tokType = TypeOf(Shifted(t))])
  /\ UNCHANGED <<ret, inMixin>>
  /\ Quiet

\* case 'interpolated-code'
parseText_code ==
  /\ At("parseText", "loop")
  /\ Top.tokType = "interpolated-code"
  /\ \E t \in NextTokens :
       /\ advance(t)
       /\ Iterate([Top EXCEPT !.tags = Append(@, InlineCode(peek)),
                              !.tokType = TypeOf(Shifted(t))])
  /\ UNCHANGED <<ret, inMixin>>
  /\ Quiet

\* case 'newline', in a block: the newline is kept as text when text follows
parseText_newline ==
  /\ At("parseText", "loop")
  /\ Top.tokType = "newline"
  /\ Top.block
  /\ \E t \in NextTokens :
       /\ advance(t)
       /\ Iterate([Top EXCEPT !.tags = IF TypeOf(Shifted(t)) = "text"
                                         THEN Append(@, TextNode("\n", peek.line))
                                         ELSE @,
                              !.tokType = TypeOf(Shifted(t))])
  /\ UNCHANGED <<ret, inMixin>>
  /\ Quiet

\* case 'start-jade-interpolation': this.advance(); tags.push(this.parseExpr());
parseText_interpolation ==
  /\ At("parseText", "loop")
  /\ Top.tokType = "start-jade-interpolation"
  /\ \E t \in NextTokens : advance(t)
  /\ Call([Top EXCEPT !.pc = "expr"], exprFrame(ConsumedNext))
  /\ UNCHANGED <<ret, inMixin>>
  /\ Quiet

\* this.expect('end-jade-interpolation'); tokType = this.peek().type;
parseText_exprRet ==
  /\ At("parseText", "expr")
  /\ IF PeekType = "end-jade-interpolation"
       THEN /\ \E t \in NextTokens :
                 /\ advance(t)
                 /\ Iterate([Top EXCEPT !.tags = Append(@, ret),
                                        !.tokType = TypeOf(Shifted(t))])
            /\ ret' = Null
            /\ UNCHANGED inMixin
            /\ Quiet
       ELSE Throw("INVALID_TOKEN", peek)

\* a run of fragments that is always wrapped in a Block
TextResultWrapped(tags, lineno) == initBlock(lineno, tags)

\* the value of a run of fragments
TextResult(tags, lineno) == IF Len(tags) = 1 THEN tags[1] ELSE initBlock(lineno, tags)

\* break loop; if (tags.length === 1) return tags[0]; else return this.initBlock(lineno, tags);
parseText_return ==
  /\ At("parseText", "loop")
  /\ \/ Top.tokType \notin {"text", "interpolated-code", "newline", "start-jade-interpolation"}
     \/ Top.tokType = "newline" /\ ~Top.block
  /\ Return(TextResult(Top.tags, Top.lineno))
  /\ NoRead
  /\ UNCHANGED inMixin
  /\ Quiet

(***************************************************************************)
(* parseCode.                                                              *)
(***************************************************************************)
CodeNode(tok, noBlock) ==
  [type |-> "Code", val |-> tok.val, buffer |-> tok.buffer,
   mustEscape |-> (tok.mustEscape # FALSE), isInline |-> noBlock, line |-> tok.line]

\* parseCode without the test of tok.buffer: a block after any code is parsed.
CodeStepUnchecked(tok, noBlock, s) ==
  IF noBlock \/ TypeOf(s) # "indent" THEN "return" ELSE "block"

\* What parseCode does once the code token tok is read and s is the stream:
\* "return" the node, "throw" on a block after buffered code, or "block".
CodeStep(tok, noBlock, s) ==
  IF noBlock THEN "return"
  ELSE IF TypeOf(s) # "indent" THEN "return"
  ELSE IF tok.buffer THEN "throw"
  ELSE "block"

parseCode_start ==
  /\ At("parseCode", "start")
  /\ IF PeekType # "code" THEN Throw("INVALID_TOKEN", peek)
     ELSE \E t \in NextTokens :
       LET step == CodeStep(peek, Top.noBlock, Shifted(t))
           node == CodeNode(peek, Top.noBlock)
       IN  /\ advance(t)
           /\ CASE step = "return" ->
                     /\ Return(node)
                     /\ UNCHANGED <<status, err>>
                [] step = "throw" ->
                     /\ status' = "error"
                     /\ err' = [code |-> "BLOCK_IN_BUFFERED_CODE", type |-> Head(Shifted(t)).type,
                                line |-> Head(Shifted(t)).line]
                     /\ UNCHANGED <<stack, ret>>
                [] step = "block" ->
                     /\ Call([fn |-> "parseCode", pc |-> "blockRet", node |-> node], Frame("block"))
                     /\ UNCHANGED <<ret, status, err>>
           /\ UNCHANGED <<lexicon, written, inMixin>>

\* node.block = this.block(); return node;
parseCode_blockRet ==
  /\ At("parseCode", "blockRet")
  /\ Return(Top.node @@ [block |-> ret])
  /\ NoRead
  /\ UNCHANGED inMixin
  /\ Quiet

(***************************************************************************)
(* attrs: an attribute group.                                              *)
(***************************************************************************)
Contains(seq, x) == \E i \in 1..Len(seq) : seq[i] = x

\* this.expect('start-attributes')
attrs_start ==
  /\ At("attrs", "start")
  /\ IF PeekType = "start-attributes"
       THEN /\ \E t \in NextTokens : advance(t)
            /\ Goto([Top EXCEPT !.pc = "advance"])
            /\ UNCHANGED <<ret, inMixin>>
            /\ Quiet
       ELSE Throw("INVALID_TOKEN", peek)

\* var tok = this.advance();
attrs_advance ==
  /\ At("attrs", "advance")
  /\ \E t \in NextTokens : advance(t)
  /\ Goto([Top EXCEPT !.pc = "loop"] @@ [tok |-> peek, mark |-> ConsumedNext])
  /\ UNCHANGED <<ret, inMixin>>
  /\ Quiet

\* attrs() without the test of the names already seen
NoDuplicateAttribute(tok, hasNames, attributeNames) == FALSE

\* whether the attribute token tok repeats a name of attributeNames
DuplicateAttribute(tok, hasNames, attributeNames) ==
  /\ tok.name # "class"
  /\ hasNames
  /\ Contains(attributeNames, tok.name)

AttributeOf(tok) == [name |-> tok.name, val |-> tok.val, mustEscape |-> (tok.mustEscape # FALSE)]

\* while (tok.type === 'attribute') { ...; tok = this.advance(); }
attrs_attribute ==
  /\ At("attrs", "loop")
  /\ Top.tok.type = "attribute"
  /\ IF DuplicateAttribute(Top.tok, Top.hasNames, Top.attributeNames)
       THEN Throw("DUPLICATE_ATTRIBUTE", Top.tok)
       ELSE /\ \E t \in NextTokens : advance(t)
            /\ Iterate([Top EXCEPT
                 !.attributeNames = IF Top.tok.name # "class" /\ Top.hasNames
                                      THEN Append(@, Top.tok.name) ELSE @,
                 !.attrs = Append(@, AttributeOf(Top.tok)),
                 !.tok = peek])
            /\ UNCHANGED <<ret, inMixin>>
            /\ Quiet

\* this.tokens.defer(tok);
attrs_defer ==
  /\ At("attrs", "loop")
  /\ Top.tok.type # "attribute"
  /\ toks' = Deferred(Top.tok)
  /\ Goto([Top EXCEPT !.pc = "end"])
  /\ UNCHANGED <<input, ret, inMixin>>
  /\ Quiet

\* this.expect('end-attributes'); return attrs;
\* The names are returned with the attributes: the caller's array was extended.
attrs_end ==
  /\ At("attrs", "end")
  /\ IF PeekType = "end-attributes"
       THEN /\ \E t \in NextTokens : advance(t)
            /\ Return([type |-> "attrs", attrs |-> Top.attrs,
                       attributeNames |-> Top.attributeNames])
            /\ UNCHANGED inMixin
            /\ Quiet
       ELSE Throw("INVALID_TOKEN", peek)


(***************************************************************************)
(* parseTextBlock: a verbatim region.                                      *)
(***************************************************************************)
\* var tok = this.accept('start-pipeless-text'); if (!tok) return;
parseTextBlock_start ==
  /\ At("parseTextBlock", "start")
  /\ IF PeekType = "start-pipeless-text"
       THEN /\ \E t \in NextTokens : advance(t)
            /\ Goto([fn |-> "parseTextBlock", pc |-> "loop", block |-> emptyBlock(peek.line),
                     mark |-> ConsumedNext])
            /\ UNCHANGED ret
       ELSE /\ Return(Undefined)
            /\ NoRead
  /\ UNCHANGED inMixin
  /\ Quiet

\* the node of a text, newline or interpolated-code token of a verbatim region
PipelessNode(tok) ==
  CASE tok.type = "text" -> [type |-> "Text", val |-> tok.val, line |-> tok.line]
    [] tok.type = "newline" -> [type |-> "Text", val |-> "\n", line |-> tok.line]
    [] tok.type = "interpolated-code" -> InlineCode(tok)

parseTextBlock_text ==
  /\ At("parseTextBlock", "loop")
  /\ PeekType \in {"text", "newline", "interpolated-code"}
  /\ \E t \in NextTokens : advance(t)
  /\ Iterate([Top EXCEPT !.block.nodes = Append(@, PipelessNode(peek))])
  /\ UNCHANGED <<ret, inMixin>>
  /\ Quiet

parseTextBlock_interpolation ==
  /\ At("parseTextBlock", "loop")
  /\ PeekType = "start-jade-interpolation"
  /\ \E t \in NextTokens : advance(t)
  /\ Call([Top EXCEPT !.pc = "expr"], exprFrame(ConsumedNext))
  /\ UNCHANGED <<ret, inMixin>>
  /\ Quiet

parseTextBlock_exprRet ==
  /\ At("parseTextBlock", "expr")
  /\ IF PeekType = "end-jade-interpolation"
       THEN /\ \E t \in NextTokens : advance(t)
            /\ Iterate([Top EXCEPT !.block.nodes = Append(@, ret)])
            /\ ret' = Null
            /\ UNCHANGED inMixin
            /\ Quiet
       ELSE Throw("INVALID_TOKEN", peek)

\* default: the token is read, then reported
parseTextBlock_unexpected ==
  /\ At("parseTextBlock", "loop")
  /\ PeekType \notin {"end-pipeless-text", "text", "newline", "interpolated-code",
                      "start-jade-interpolation"}
  /\ \E t \in NextTokens : advance(t)
  /\ status' = "error"
  /\ err' = [code |-> "INVALID_TOKEN", type |-> peek.type, line |-> peek.line]
  /\ UNCHANGED <<lexicon, written, stack, ret, inMixin>>

\* this.advance(); return block;
parseTextBlock_end ==
  /\ At("parseTextBlock", "loop")
  /\ PeekType = "end-pipeless-text"
  /\ \E t \in NextTokens : advance(t)
  /\ Return(Top.block)
  /\ UNCHANGED inMixin
  /\ Quiet

(***************************************************************************)
(* tag: the body of a tag, an interpolated tag or a mixin call.            *)
(***************************************************************************)
LoopKinds == {"id", "class", "start-attributes", "&attributes"}

NoBodyKinds ==
  {"newline", "indent", "outdent", "eos", "start-pipeless-text", "end-jade-interpolation"}

\* at the switch after the loop: the loop was left on this token, which is no dot
tagAtBody ==
  \/ At("tag", "body")
  \/ At("tag", "loop") /\ PeekType \notin LoopKinds \union {"dot"}

\* at the loop that skips newlines, the switch having nothing to do on this token
tagAtNewlines ==
  \/ At("tag", "newlines")
  \/ tagAtBody /\ PeekType \in NoBodyKinds

\* "'" + tok.val + "'"
Quoted(val) == "'" \o val \o "'"

ShorthandAttribute(tok) == [name |-> tok.type, val |-> Quoted(tok.val), mustEscape |-> FALSE]

\* whether the id token tok is a second id
DuplicateId(tok, attributeNames) == tok.type = "id" /\ Contains(attributeNames, "id")

\* case 'id': case 'class'
tag_shorthand ==
  /\ At("tag", "loop")
  /\ PeekType \in {"id", "class"}
  /\ \E t \in NextTokens :
       /\ advance(t)
       /\ IF DuplicateId(peek, Top.attributeNames)
            THEN /\ status' = "error"
                 /\ err' = [code |-> "DUPLICATE_ID", type |-> peek.type, line |-> peek.line]
                 /\ UNCHANGED stack
            ELSE /\ Iterate([Top EXCEPT
                      !.attributeNames = IF peek.type = "id" THEN Append(@, "id") ELSE @,
                      !.tag.attrs = Append(@, ShorthandAttribute(peek))])
                 /\ UNCHANGED <<status, err>>
  /\ UNCHANGED <<lexicon, written, ret, inMixin>>

\* case 'start-attributes': ... this.attrs(attributeNames)
tag_attrs ==
  /\ At("tag", "loop")
  /\ PeekType = "start-attributes"
  /\ Call([Top EXCEPT !.pc = "attrsRet", !.seenAttrs = TRUE], attrsFrame(TRUE, Top.attributeNames))
  /\ NoRead
  /\ UNCHANGED <<ret, inMixin>>
  /\ Quiet

\* tag.attrs = tag.attrs.concat(...)
tag_attrsRet ==
  /\ At("tag", "attrsRet")
  /\ NoRead
  /\ Iterate([Top EXCEPT !.tag.attrs = @ \o ret.attrs,
                         !.attributeNames = ret.attributeNames])
  /\ ret' = Null
  /\ UNCHANGED inMixin
  /\ Quiet

\* case '&attributes'
tag_attributeBlock ==
  /\ At("tag", "loop")
  /\ PeekType = "&attributes"
  /\ \E t \in NextTokens : advance(t)
  /\ Iterate([Top EXCEPT !.tag.attributeBlocks = Append(@, peek.val)])
  /\ UNCHANGED <<ret, inMixin>>
  /\ Quiet

\* if ('dot' == this.peek().type) { tag.textOnly = true; this.advance(); }
tag_dot ==
  /\ At("tag", "loop")
  /\ PeekType = "dot"
  /\ \E t \in NextTokens : advance(t)
  /\ Goto([Top EXCEPT !.pc = "body", !.tag = [textOnly |-> TRUE] @@ @])
  /\ UNCHANGED <<ret, inMixin>>
  /\ Quiet

\* case 'text': case 'interpolated-code': var text = this.parseText();
tag_text ==
  /\ tagAtBody
  /\ PeekType \in {"text", "interpolated-code"}
  /\ Call([Top EXCEPT !.pc = "textRet"], textFrame(FALSE, peek))
  /\ NoRead
  /\ UNCHANGED <<ret, inMixin>>
  /\ Quiet

\* the body of a tag once the value text of parseText is added to it
WithText(nodes, text) == IF text.type = "Block" THEN nodes \o text.nodes ELSE Append(nodes, text)

tag_textRet ==
  /\ At("tag", "textRet")
  /\ Goto([Top EXCEPT !.pc = "newlines", !.tag.block.nodes = WithText(@, ret)])
  /\ ret' = Null
  /\ NoRead
  /\ UNCHANGED inMixin
  /\ Quiet

\* case 'code': tag.block.nodes.push(this.parseCode(true));
tag_code ==
  /\ tagAtBody
  /\ PeekType = "code"
  /\ Call([Top EXCEPT !.pc = "codeRet"], codeFrame(TRUE))
  /\ NoRead
  /\ UNCHANGED <<ret, inMixin>>
  /\ Quiet

tag_codeRet ==
  /\ At("tag", "codeRet")
  /\ Goto([Top EXCEPT !.pc = "newlines", !.tag.block.nodes = Append(@, ret)])
  /\ ret' = Null
  /\ NoRead
  /\ UNCHANGED inMixin
  /\ Quiet

\* case ':': this.advance(); tag.block = this.initBlock(tag.line, [this.parseExpr()]);
tag_colon ==
  /\ tagAtBody
  /\ PeekType = ":"
  /\ \E t \in NextTokens : advance(t)
  /\ Call([Top EXCEPT !.pc = "colonRet"], exprFrame(ConsumedNext))
  /\ UNCHANGED <<ret, inMixin>>
  /\ Quiet

tag_colonRet ==
  /\ At("tag", "colonRet")
  /\ Goto([Top EXCEPT !.pc = "newlines", !.tag.block = initBlock(Top.tag.line, <<ret>>)])
  /\ ret' = Null
  /\ NoRead
  /\ UNCHANGED inMixin
  /\ Quiet

\* case 'slash': if (selfClosingAllowed) { this.advance(); tag.selfClosing = true; break; }
tag_slash ==
  /\ tagAtBody
  /\ PeekType = "slash"
  /\ Top.selfClosingAllowed
  /\ \E t \in NextTokens : advance(t)
  /\ Goto([Top EXCEPT !.pc = "newlines", !.tag.selfClosing = TRUE])
  /\ UNCHANGED <<ret, inMixin>>
  /\ Quiet

\* default, and a slash where it is not allowed
tag_unexpected ==
  /\ tagAtBody
  /\ \/ PeekType \notin NoBodyKinds \union {"text", "interpolated-code", "code", ":", "slash"}
     \/ PeekType = "slash" /\ ~Top.selfClosingAllowed
  /\ Throw("INVALID_TOKEN", peek)

\* while ('newline' == this.peek().type) this.advance();
tag_newline ==
  /\ tagAtNewlines
  /\ PeekType = "newline"
  /\ \E t \in NextTokens : advance(t)
  /\ Goto([Top EXCEPT !.pc = "newlines"])
  /\ UNCHANGED <<ret, inMixin>>
  /\ Quiet

\* if (tag.textOnly) tag.block = this.parseTextBlock() || this.emptyBlock(tag.line);
tag_textBlock ==
  /\ tagAtNewlines
  /\ PeekType # "newline"
  /\ HasField(Top.tag, "textOnly")
  /\ Call([Top EXCEPT !.pc = "textBlockRet"], Frame("parseTextBlock"))
  /\ NoRead
  /\ UNCHANGED <<ret, inMixin>>
  /\ Quiet

tag_textBlockRet ==
  /\ At("tag", "textBlockRet")
  /\ Return([Top.tag EXCEPT !.block = IF ret = Undefined THEN emptyBlock(Top.tag.line) ELSE ret])
  /\ NoRead
  /\ UNCHANGED inMixin
  /\ Quiet

\* else if ('indent' == this.peek().type) { var block = this.block(); ... }
tag_block ==
  /\ tagAtNewlines
  /\ PeekType = "indent"
  /\ ~HasField(Top.tag, "textOnly")
  /\ Call([Top EXCEPT !.pc = "blockRet"], Frame("block"))
  /\ NoRead
  /\ UNCHANGED <<ret, inMixin>>
  /\ Quiet

\* the nodes of the indented block are added to the body; return tag;
tag_blockRet ==
  /\ At("tag", "blockRet")
  /\ Return([Top.tag EXCEPT !.block.nodes = @ \o ret.nodes])
  /\ NoRead
  /\ UNCHANGED inMixin
  /\ Quiet

\* return tag, no block following
tag_return ==
  /\ tagAtNewlines
  /\ PeekType \notin {"newline", "indent"}
  /\ ~HasField(Top.tag, "textOnly")
  /\ Return(Top.tag)
  /\ NoRead
  /\ UNCHANGED inMixin
  /\ Quiet

(***************************************************************************)
(* parseTag, parseInterpolation, parseCall.                                *)
(***************************************************************************)
\* lib/inline-tags
InlineTags ==
  {"a", "abbr", "acronym", "b", "br", "code", "em", "font", "i", "img", "ins", "kbd",
   "map", "samp", "small", "span", "strong", "sub", "sup"}

TagNode(tok) ==
  [type |-> "Tag", name |-> tok.val, selfClosing |-> FALSE, block |-> emptyBlock(tok.line),
   attrs |-> <<>>, attributeBlocks |-> <<>>, isInline |-> (tok.val \in InlineTags),
   line |-> tok.line]

InterpolatedTagNode(tok) ==
  [type |-> "InterpolatedTag", expr |-> tok.val, selfClosing |-> FALSE,
   block |-> emptyBlock(tok.line), attrs |-> <<>>, attributeBlocks |-> <<>>,
   isInline |-> FALSE, line |-> tok.line]

CallNode(tok) ==
  [type |-> "Mixin", name |-> tok.val, args |-> tok.args, block |-> emptyBlock(tok.line),
   call |-> TRUE, attrs |-> <<>>, attributeBlocks |-> <<>>, line |-> tok.line]

\* var tok = this.advance(); ... return this.tag(tag, {selfClosingAllowed: true});
parseTag_start ==
  /\ At("parseTag", "start")
  /\ \E t \in NextTokens : advance(t)
  /\ Call([Top EXCEPT !.pc = "ret"], tagFrame(TagNode(peek), TRUE, ConsumedNext))
  /\ UNCHANGED <<ret, inMixin>>
  /\ Quiet

parseTag_ret ==
  /\ At("parseTag", "ret")
  /\ Return(ret)
  /\ NoRead
  /\ UNCHANGED inMixin
  /\ Quiet

parseInterpolation_start ==
  /\ At("parseInterpolation", "start")
  /\ \E t \in NextTokens : advance(t)
  /\ Call([Top EXCEPT !.pc = "ret"], tagFrame(InterpolatedTagNode(peek), TRUE, ConsumedNext))
  /\ UNCHANGED <<ret, inMixin>>
  /\ Quiet

parseInterpolation_ret ==
  /\ At("parseInterpolation", "ret")
  /\ Return(ret)
  /\ NoRead
  /\ UNCHANGED inMixin
  /\ Quiet

\* var tok = this.expect('call'); ... this.tag(mixin);
parseCall_start ==
  /\ At("parseCall", "start")
  /\ IF PeekType # "call" THEN Throw("INVALID_TOKEN", peek)
     ELSE /\ \E t \in NextTokens : advance(t)
          /\ Call([Top EXCEPT !.pc = "tagRet"], tagFrame(CallNode(peek), FALSE, ConsumedNext))
          /\ UNCHANGED <<ret, inMixin>>
          /\ Quiet

\* if (mixin.block.nodes.length === 0) mixin.block = null; return mixin;
\* (tag() never sets mixin.code)
parseCall_tagRet ==
  /\ At("parseCall", "tagRet")
  /\ Return(IF ret.block.nodes = <<>> THEN [ret EXCEPT !.block = Null] ELSE ret)
  /\ NoRead
  /\ UNCHANGED inMixin
  /\ Quiet


(***************************************************************************)
(* parseTextHtml: the raw-HTML coalescer.                                  *)
(* currentNode is the index in nodes of the node it refers to, 0 for null; *)
(* taken tells that this node is a node of a nested block, which block()   *)
(* returned, and not a node built by this call.                            *)
(***************************************************************************)
HtmlNode(text) == [type |-> "Text", val |-> text.val, line |-> text.line, isHtml |-> TRUE]

\* nodes and currentNode once the text-html token text is read
WithHtml(nodes, currentNode, text) ==
  IF currentNode = 0
    THEN [nodes |-> Append(nodes, HtmlNode(text)), currentNode |-> Len(nodes) + 1]
    ELSE [nodes |-> [nodes EXCEPT ![currentNode].val = @ \o "\n" \o text.val],
          currentNode |-> currentNode]

\* block.nodes.forEach(...), from the i-th node of the nested block on; w is the
\* last assignment to a node of a nested block
RECURSIVE Merged(_, _, _, _, _, _)
Merged(nodes, currentNode, taken, blockNodes, i, w) ==
  IF i > Len(blockNodes)
    THEN [nodes |-> nodes, currentNode |-> currentNode, taken |-> taken, written |-> w]
  ELSE LET node == blockNodes[i] IN
    IF HasField(node, "isHtml") /\ node.isHtml
      THEN IF currentNode = 0
             THEN Merged(Append(nodes, node), Len(nodes) + 1, TRUE, blockNodes, i + 1, w)
             ELSE LET now == [nodes[currentNode] EXCEPT !.val = @ \o "\n" \o node.val] IN
                  Merged([nodes EXCEPT ![currentNode] = now], currentNode, taken, blockNodes,
                         i + 1,
                         IF taken THEN Write("parseTextHtml", nodes[currentNode], now) ELSE w)
      ELSE Merged(Append(nodes, node), 0, FALSE, blockNodes, i + 1, w)

\* var text = this.advance(); ...; then a block, a newline or the next turn of the loop
parseTextHtml_text ==
  /\ At("parseTextHtml", "loop")
  /\ PeekType = "text-html"
  /\ \E t \in NextTokens :
       LET w == WithHtml(Top.nodes, Top.currentNode, peek)
           frame == [Top EXCEPT !.nodes = w.nodes, !.currentNode = w.currentNode,
                                !.taken = Top.currentNode # 0 /\ @]
       IN  /\ advance(t)
           /\ CASE TypeOf(Shifted(t)) = "indent" ->
                     Call([frame EXCEPT !.pc = "blockRet"], Frame("block"))
                [] TypeOf(Shifted(t)) = "newline" -> Goto([frame EXCEPT !.pc = "newline"])
                [] OTHER -> Iterate(frame)
           /\ written' = IF Top.currentNode # 0 /\ Top.taken
                            THEN Write("parseTextHtml", Top.nodes[Top.currentNode],
                                       w.nodes[Top.currentNode])
                            ELSE written
  /\ UNCHANGED <<ret, inMixin, lexicon, status, err>>

\* node.isHtml of an undefined node throws a TypeError
parseTextHtml_blockRet ==
  /\ At("parseTextHtml", "blockRet")
  /\ IF \E i \in 1..Len(ret.nodes) : ret.nodes[i] = Undefined
       THEN /\ status' = "error"
            /\ err' = [code |-> "TypeError", type |-> PeekType, line |-> ret.line]
            /\ UNCHANGED <<toks, input, lexicon, written, stack, ret, inMixin>>
       ELSE LET m == Merged(Top.nodes, Top.currentNode, Top.taken, ret.nodes, 1, written) IN
            /\ NoRead
            /\ Iterate([Top EXCEPT !.nodes = m.nodes, !.currentNode = m.currentNode,
                                   !.taken = m.taken])
            /\ ret' = Null
            /\ written' = m.written
            /\ UNCHANGED <<inMixin, lexicon, status, err>>

\* else if (this.peek().type === 'newline') this.advance();
parseTextHtml_newline ==
  /\ At("parseTextHtml", "newline")
  /\ \E t \in NextTokens : advance(t)
  /\ Iterate(Top)
  /\ UNCHANGED <<ret, inMixin>>
  /\ Quiet

parseTextHtml_return ==
  /\ At("parseTextHtml", "loop")
  /\ PeekType # "text-html"
  /\ Return([type |-> "list", nodes |-> Top.nodes])
  /\ NoRead
  /\ UNCHANGED inMixin
  /\ Quiet

(***************************************************************************)
(* Productions of one or two tokens.                                       *)
(***************************************************************************)
\* String.prototype.trim on a value given as a sequence of pieces
RECURSIVE TrimLeft(_)
TrimLeft(p) == IF p # <<>> /\ Head(p) = " " THEN TrimLeft(Tail(p)) ELSE p

RECURSIVE TrimRight(_)
TrimRight(p) ==
  IF p # <<>> /\ p[Len(p)] = " " THEN TrimRight(SubSeq(p, 1, Len(p) - 1)) ELSE p

Trim(p) == TrimRight(TrimLeft(p))

parseDoctype_start ==
  /\ At("parseDoctype", "start")
  /\ IF PeekType # "doctype" THEN Throw("INVALID_TOKEN", peek)
     ELSE /\ \E t \in NextTokens : advance(t)
          /\ Return([type |-> "Doctype", val |-> peek.val, line |-> peek.line])
          /\ UNCHANGED inMixin
          /\ Quiet

parseYield_start ==
  /\ At("parseYield", "start")
  /\ IF PeekType # "yield" THEN Throw("INVALID_TOKEN", peek)
     ELSE /\ \E t \in NextTokens : advance(t)
          /\ Return([type |-> "YieldBlock", line |-> peek.line])
          /\ UNCHANGED inMixin
          /\ Quiet

\* the token is read, then rejected when no mixin definition is being parsed
\* parseMixinBlock without the test of the counter
NeverOutsideMixin(counter) == FALSE

\* !this.inMixin
OutsideMixin(counter) == counter = 0

parseMixinBlock_start ==
  /\ At("parseMixinBlock", "start")
  /\ IF PeekType # "mixin-block" THEN Throw("INVALID_TOKEN", peek)
     ELSE /\ \E t \in NextTokens : advance(t)
          /\ IF OutsideMixin(inMixin)
               THEN /\ status' = "error"
                    /\ err' = [code |-> "BLOCK_OUTISDE_MIXIN", type |-> peek.type,
                               line |-> peek.line]
                    /\ UNCHANGED <<stack, ret>>
               ELSE /\ Return([type |-> "MixinBlock", line |-> peek.line])
                    /\ UNCHANGED <<status, err>>
          /\ UNCHANGED <<lexicon, written, inMixin>>

parseExtends_start ==
  /\ At("parseExtends", "start")
  /\ IF PeekType # "extends" THEN Throw("INVALID_TOKEN", peek)
     ELSE /\ \E t \in NextTokens : advance(t)
          /\ Goto([fn |-> "parseExtends", pc |-> "path", tok |-> peek])
          /\ UNCHANGED <<ret, inMixin>>
          /\ Quiet

FileReference(path, line) == [type |-> "FileReference", path |-> path, line |-> line]

parseExtends_path ==
  /\ At("parseExtends", "path")
  /\ IF PeekType # "path" THEN Throw("INVALID_TOKEN", peek)
     ELSE /\ \E t \in NextTokens : advance(t)
          /\ Return([type |-> "Extends", file |-> FileReference(Trim(peek.val), Top.tok.line),
                     line |-> Top.tok.line])
          /\ UNCHANGED inMixin
          /\ Quiet

\* this.advance(); return this.parseTextBlock();
parseDot_start ==
  /\ At("parseDot", "start")
  /\ \E t \in NextTokens : advance(t)
  /\ Call([Top EXCEPT !.pc = "ret"], Frame("parseTextBlock"))
  /\ UNCHANGED <<ret, inMixin>>
  /\ Quiet

parseDot_ret ==
  /\ At("parseDot", "ret")
  /\ Return(ret)
  /\ NoRead
  /\ UNCHANGED inMixin
  /\ Quiet

\* var tok = this.expect('comment'); if (block = this.parseTextBlock()) ...
parseComment_start ==
  /\ At("parseComment", "start")
  /\ IF PeekType # "comment" THEN Throw("INVALID_TOKEN", peek)
     ELSE /\ \E t \in NextTokens : advance(t)
          /\ Call([fn |-> "parseComment", pc |-> "textBlockRet", tok |-> peek],
                  Frame("parseTextBlock"))
          /\ UNCHANGED <<ret, inMixin>>
          /\ Quiet

CommentNode(tok, block) ==
  IF block # Undefined
    THEN [type |-> "BlockComment", val |-> tok.val, block |-> block, buffer |-> tok.buffer,
          line |-> tok.line]
    ELSE [type |-> "Comment", val |-> tok.val, buffer |-> tok.buffer, line |-> tok.line]

parseComment_textBlockRet ==
  /\ At("parseComment", "textBlockRet")
  /\ Return(CommentNode(Top.tok, ret))
  /\ NoRead
  /\ UNCHANGED inMixin
  /\ Quiet

(***************************************************************************)
(* parseBlockCode.                                                         *)
(***************************************************************************)
BlockCodeNode(text, line) ==
  [type |-> "Code", val |-> text, buffer |-> FALSE, mustEscape |-> FALSE, isInline |-> FALSE,
   line |-> line]

parseBlockCode_start ==
  /\ At("parseBlockCode", "start")
  /\ IF PeekType # "blockcode" THEN Throw("INVALID_TOKEN", peek)
     ELSE /\ \E t \in NextTokens :
               /\ advance(t)
               /\ IF TypeOf(Shifted(t)) = "start-pipeless-text"
                    THEN /\ Goto([fn |-> "parseBlockCode", pc |-> "body", line |-> peek.line])
                         /\ UNCHANGED ret
                    ELSE Return(BlockCodeNode("", peek.line))
          /\ UNCHANGED inMixin
          /\ Quiet

\* if (body.type === 'start-pipeless-text') { this.advance(); ...
parseBlockCode_body ==
  /\ At("parseBlockCode", "body")
  /\ \E t \in NextTokens : advance(t)
  /\ Goto([Top EXCEPT !.pc = "loop"] @@ [text |-> "", mark |-> ConsumedNext])
  /\ UNCHANGED <<ret, inMixin>>
  /\ Quiet

parseBlockCode_text ==
  /\ At("parseBlockCode", "loop")
  /\ PeekType \in {"text", "newline"}
  /\ \E t \in NextTokens : advance(t)
  /\ Iterate([Top EXCEPT !.text = @ \o (IF peek.type = "text" THEN peek.val ELSE "\n")])
  /\ UNCHANGED <<ret, inMixin>>
  /\ Quiet

parseBlockCode_unexpected ==
  /\ At("parseBlockCode", "loop")
  /\ PeekType \notin {"end-pipeless-text", "text", "newline"}
  /\ \E t \in NextTokens : advance(t)
  /\ status' = "error"
  /\ err' = [code |-> "INVALID_TOKEN", type |-> peek.type, line |-> peek.line]
  /\ UNCHANGED <<lexicon, written, stack, ret, inMixin>>

parseBlockCode_end ==
  /\ At("parseBlockCode", "loop")
  /\ PeekType = "end-pipeless-text"
  /\ \E t \in NextTokens : advance(t)
  /\ Return(BlockCodeNode(Top.text, Top.line))
  /\ UNCHANGED inMixin
  /\ Quiet

(***************************************************************************)
(* parseConditional: if, else-if*, else?.                                  *)
(* currentNode is the number of alternate links from node to the node it   *)
(* refers to.                                                              *)
(***************************************************************************)
ConditionalNode(tok) ==
  [type |-> "Conditional", test |-> tok.val, consequent |-> emptyBlock(tok.line),
   alternate |-> Null, line |-> tok.line]

\* currentNode.consequent = block
RECURSIVE WithConsequent(_, _, _)
WithConsequent(node, currentNode, block) ==
  IF currentNode = 0 THEN [node EXCEPT !.consequent = block]
  ELSE [node EXCEPT !.alternate = WithConsequent(@, currentNode - 1, block)]

\* the alternate hung off the first node, whatever currentNode is
WithAlternateOfRoot(node, currentNode, alternate) == [node EXCEPT !.alternate = alternate]

\* currentNode.alternate = alternate
RECURSIVE WithAlternate(_, _, _)
WithAlternate(node, currentNode, alternate) ==
  IF currentNode = 0 THEN [node EXCEPT !.alternate = alternate]
  ELSE [node EXCEPT !.alternate = WithAlternate(@, currentNode - 1, alternate)]

parseConditional_start ==
  /\ At("parseConditional", "start")
  /\ IF PeekType # "if" THEN Throw("INVALID_TOKEN", peek)
     ELSE /\ \E t \in NextTokens :
               LET frame == [fn |-> "parseConditional", pc |-> "loop",
                             node |-> ConditionalNode(peek), currentNode |-> 0,
                             mark |-> Consumed + 1]
               IN  /\ advance(t)
                   /\ IF TypeOf(Shifted(t)) = "indent"
                        THEN Call([frame EXCEPT !.pc = "consequentRet"], Frame("block"))
                        ELSE Goto(frame)
          /\ UNCHANGED <<ret, inMixin>>
          /\ Quiet

\* node.consequent = this.block(), currentNode.consequent = this.block()
parseConditional_consequentRet ==
  /\ At("parseConditional", "consequentRet")
  /\ NoRead
  /\ Iterate([Top EXCEPT !.node = WithConsequent(@, Top.currentNode, ret)])
  /\ ret' = Null
  /\ UNCHANGED inMixin
  /\ Quiet

parseConditional_newline ==
  /\ At("parseConditional", "loop")
  /\ PeekType = "newline"
  /\ \E t \in NextTokens : advance(t)
  /\ Iterate(Top)
  /\ UNCHANGED <<ret, inMixin>>
  /\ Quiet

\* currentNode = (currentNode.alternate = {...}); then its block, if any
parseConditional_elseIf ==
  /\ At("parseConditional", "loop")
  /\ PeekType = "else-if"
  /\ \E t \in NextTokens :
       LET frame == [Top EXCEPT
                       !.node = WithAlternate(@, Top.currentNode, ConditionalNode(peek)),
                       !.currentNode = @ + 1]
       IN  /\ advance(t)
           /\ IF TypeOf(Shifted(t)) = "indent"
                THEN Call([frame EXCEPT !.pc = "consequentRet"], Frame("block"))
                ELSE Iterate(frame)
  /\ UNCHANGED <<ret, inMixin>>
  /\ Quiet

\* this.expect('else'); if (this.peek().type === 'indent') ...; break;
parseConditional_else ==
  /\ At("parseConditional", "loop")
  /\ PeekType = "else"
  /\ \E t \in NextTokens :
       /\ advance(t)
       /\ IF TypeOf(Shifted(t)) = "indent"
            THEN /\ Call([Top EXCEPT !.pc = "alternateRet"], Frame("block"))
                 /\ UNCHANGED ret
            ELSE Return(Top.node)
  /\ UNCHANGED inMixin
  /\ Quiet

\* currentNode.alternate = this.block(); break; return node;
parseConditional_alternateRet ==
  /\ At("parseConditional", "alternateRet")
  /\ Return(WithAlternate(Top.node, Top.currentNode, ret))
  /\ NoRead
  /\ UNCHANGED inMixin
  /\ Quiet

\* else break; return node;
parseConditional_return ==
  /\ At("parseConditional", "loop")
  /\ PeekType \notin {"newline", "else-if", "else"}
  /\ Return(Top.node)
  /\ NoRead
  /\ UNCHANGED inMixin
  /\ Quiet

(***************************************************************************)
(* parseWhile, parseEach, parseBlock, parseMixin.                          *)
(***************************************************************************)
WhileNode(tok, block) == [type |-> "While", test |-> tok.val, line |-> tok.line, block |-> block]

parseWhile_start ==
  /\ At("parseWhile", "start")
  /\ IF PeekType # "while" THEN Throw("INVALID_TOKEN", peek)
     ELSE /\ \E t \in NextTokens :
               /\ advance(t)
               /\ IF TypeOf(Shifted(t)) = "indent"
                    THEN /\ Call([fn |-> "parseWhile", pc |-> "blockRet", tok |-> peek],
                                 Frame("block"))
                         /\ UNCHANGED ret
                    ELSE Return(WhileNode(peek, emptyBlock(peek.line)))
          /\ UNCHANGED inMixin
          /\ Quiet

parseWhile_blockRet ==
  /\ At("parseWhile", "blockRet")
  /\ Return(WhileNode(Top.tok, ret))
  /\ NoRead
  /\ UNCHANGED inMixin
  /\ Quiet

EachNode(tok, block) ==
  [type |-> "Each", obj |-> tok.code, val |-> tok.val, key |-> tok.key, block |-> block,
   line |-> tok.line]

\* var tok = this.expect('each'); ... block: this.block()
parseEach_start ==
  /\ At("parseEach", "start")
  /\ IF PeekType # "each" THEN Throw("INVALID_TOKEN", peek)
     ELSE /\ \E t \in NextTokens : advance(t)
          /\ Call([fn |-> "parseEach", pc |-> "blockRet", tok |-> peek], Frame("block"))
          /\ UNCHANGED <<ret, inMixin>>
          /\ Quiet

\* a parseEach that returns after its block and leaves an else where it is
parseEach_blockRetOnly ==
  /\ At("parseEach", "blockRet")
  /\ Return(EachNode(Top.tok, ret))
  /\ NoRead
  /\ UNCHANGED inMixin
  /\ Quiet

\* if (this.peek().type == 'else') { this.advance(); node.alternate = this.block(); }
parseEach_blockRet ==
  /\ At("parseEach", "blockRet")
  /\ IF PeekType = "else"
       THEN /\ \E t \in NextTokens : advance(t)
            /\ Call([fn |-> "parseEach", pc |-> "alternateRet",
                     node |-> EachNode(Top.tok, ret)], Frame("block"))
            /\ ret' = Null
       ELSE /\ Return(EachNode(Top.tok, ret))
            /\ NoRead
  /\ UNCHANGED inMixin
  /\ Quiet

parseEach_alternateRet ==
  /\ At("parseEach", "alternateRet")
  /\ Return(Top.node @@ [alternate |-> ret])
  /\ NoRead
  /\ UNCHANGED inMixin
  /\ Quiet

\* node.type = 'NamedBlock'; node.name = tok.val.trim(); node.mode = tok.mode; node.line = tok.line;
NamedBlock(node, tok) ==
  [type |-> "NamedBlock", nodes |-> node.nodes, name |-> Trim(tok.val), mode |-> tok.mode,
   line |-> tok.line]

parseBlock_start ==
  /\ At("parseBlock", "start")
  /\ IF PeekType # "block" THEN Throw("INVALID_TOKEN", peek)
     ELSE /\ \E t \in NextTokens :
               /\ advance(t)
               /\ IF TypeOf(Shifted(t)) = "indent"
                    THEN /\ Call([fn |-> "parseBlock", pc |-> "blockRet", tok |-> peek],
                                 Frame("block"))
                         /\ UNCHANGED ret
                    ELSE Return(NamedBlock(emptyBlock(peek.line), peek))
          /\ UNCHANGED inMixin
          /\ Quiet

parseBlock_blockRet ==
  /\ At("parseBlock", "blockRet")
  /\ Return(NamedBlock(ret, Top.tok))
  /\ written' = Write("parseBlock", ret, NamedBlock(ret, Top.tok))
  /\ NoRead
  /\ UNCHANGED <<inMixin, lexicon, status, err>>

MixinDefinition(tok, block) ==
  [type |-> "Mixin", name |-> tok.val, args |-> tok.args, block |-> block, call |-> FALSE,
   line |-> tok.line]

LegacyCall(tok) ==
  [type |-> "Mixin", name |-> tok.val, args |-> tok.args, block |-> emptyBlock(tok.line),
   call |-> TRUE, attrs |-> <<>>, attributeBlocks |-> <<>>, line |-> tok.line]

\* a definition when an indent follows (this.inMixin++), a call otherwise
parseMixin_start ==
  /\ At("parseMixin", "start")
  /\ IF PeekType # "mixin" THEN Throw("INVALID_TOKEN", peek)
     ELSE /\ \E t \in NextTokens :
               /\ advance(t)
               /\ IF TypeOf(Shifted(t)) = "indent"
                    THEN /\ inMixin' = inMixin + 1
                         /\ Call([fn |-> "parseMixin", pc |-> "blockRet", tok |-> peek],
                                 Frame("block"))
                         /\ UNCHANGED ret
                    ELSE /\ Return(LegacyCall(peek))
                         /\ UNCHANGED inMixin
          /\ Quiet

\* a definition that returns without this.inMixin--
parseMixin_blockRetCounting ==
  /\ At("parseMixin", "blockRet")
  /\ Return(MixinDefinition(Top.tok, ret))
  /\ NoRead
  /\ UNCHANGED inMixin
  /\ Quiet

\* this.inMixin--; return mixin;
parseMixin_blockRet ==
  /\ At("parseMixin", "blockRet")
  /\ inMixin' = inMixin - 1
  /\ Return(MixinDefinition(Top.tok, ret))
  /\ NoRead
  /\ Quiet

(***************************************************************************)
(* parseInclude, parseIncludeFilter, parseFilter.                          *)
(***************************************************************************)
\* /\.jade$/.test(path)
IsJade(path) == path # <<>> /\ path[Len(path)] = ".jade"

IncludeNode(tok, path, block) ==
  [type |-> "Include", file |-> FileReference(path, tok.line), line |-> tok.line,
   block |-> block]

\* a raw include that forgets its filters
RawIncludeUnfiltered(tok, path, filters) ==
  [type |-> "RawInclude", file |-> [type |-> "FileReference", line |-> tok.line, path |-> path],
   line |-> tok.line, filters |-> <<>>]

RawIncludeNode(tok, path, filters) ==
  [type |-> "RawInclude", file |-> FileReference(path, tok.line), line |-> tok.line,
   filters |-> filters]

parseInclude_start ==
  /\ At("parseInclude", "start")
  /\ IF PeekType # "include" THEN Throw("INVALID_TOKEN", peek)
     ELSE /\ \E t \in NextTokens : advance(t)
          /\ Goto([fn |-> "parseInclude", pc |-> "loop", tok |-> peek, filters |-> <<>>,
                   mark |-> ConsumedNext])
          /\ UNCHANGED <<ret, inMixin>>
          /\ Quiet

\* while (this.peek().type === 'filter') filters.push(this.parseIncludeFilter());
parseInclude_filter ==
  /\ At("parseInclude", "loop")
  /\ PeekType = "filter"
  /\ Call([Top EXCEPT !.pc = "filterRet"], Frame("parseIncludeFilter"))
  /\ NoRead
  /\ UNCHANGED <<ret, inMixin>>
  /\ Quiet

parseInclude_filterRet ==
  /\ At("parseInclude", "filterRet")
  /\ NoRead
  /\ Iterate([Top EXCEPT !.filters = Append(@, ret)])
  /\ ret' = Null
  /\ UNCHANGED inMixin
  /\ Quiet

\* var path = this.expect('path'); ... the node, or the block that follows first
parseInclude_path ==
  /\ At("parseInclude", "loop")
  /\ PeekType # "filter"
  /\ IF PeekType # "path" THEN Throw("INVALID_TOKEN", peek)
     ELSE /\ \E t \in NextTokens :
               LET path == Trim(peek.val)
                   indent == TypeOf(Shifted(t)) = "indent"
               IN  /\ advance(t)
                   /\ CASE IsJade(path) /\ indent ->
                             /\ Call([Top EXCEPT !.pc = "blockRet"] @@ [path |-> path],
                                     Frame("block"))
                             /\ UNCHANGED ret
                        [] IsJade(path) /\ ~indent ->
                             Return(IncludeNode(Top.tok, path, emptyBlock(Top.tok.line)))
                        [] ~IsJade(path) /\ indent ->
                             /\ Call([Top EXCEPT !.pc = "ignoredRet"] @@ [path |-> path],
                                     Frame("block"))
                             /\ UNCHANGED ret
                        [] ~IsJade(path) /\ ~indent ->
                             Return(RawIncludeNode(Top.tok, path, Top.filters))
          /\ UNCHANGED inMixin
          /\ Quiet

\* node.block = this.block(); return node;
parseInclude_blockRet ==
  /\ At("parseInclude", "blockRet")
  /\ Return(IncludeNode(Top.tok, Top.path, ret))
  /\ NoRead
  /\ UNCHANGED inMixin
  /\ Quiet

\* this.block(); the block is ignored; return node;
parseInclude_ignoredRet ==
  /\ At("parseInclude", "ignoredRet")
  /\ Return(RawIncludeNode(Top.tok, Top.path, Top.filters))
  /\ NoRead
  /\ UNCHANGED inMixin
  /\ Quiet

IncludeFilterNode(tok, attrs) ==
  [type |-> "IncludeFilter", name |-> tok.val, attrs |-> attrs, line |-> tok.line]

parseIncludeFilter_start ==
  /\ At("parseIncludeFilter", "start")
  /\ IF PeekType # "filter" THEN Throw("INVALID_TOKEN", peek)
     ELSE /\ \E t \in NextTokens :
               /\ advance(t)
               /\ IF TypeOf(Shifted(t)) = "start-attributes"
                    THEN /\ Call([fn |-> "parseIncludeFilter", pc |-> "attrsRet", tok |-> peek],
                                 attrsFrame(FALSE, <<>>))
                         /\ UNCHANGED ret
                    ELSE Return(IncludeFilterNode(peek, <<>>))
          /\ UNCHANGED inMixin
          /\ Quiet

parseIncludeFilter_attrsRet ==
  /\ At("parseIncludeFilter", "attrsRet")
  /\ Return(IncludeFilterNode(Top.tok, ret.attrs))
  /\ NoRead
  /\ UNCHANGED inMixin
  /\ Quiet

FilterNode(tok, block, attrs) ==
  [type |-> "Filter", name |-> tok.val, block |-> block, attrs |-> attrs, line |-> tok.line]

\* var tok = this.expect('filter'); ... then the attributes, if any
parseFilter_start ==
  /\ At("parseFilter", "start")
  /\ IF PeekType # "filter" THEN Throw("INVALID_TOKEN", peek)
     ELSE /\ \E t \in NextTokens :
               LET frame == [fn |-> "parseFilter", pc |-> "body", tok |-> peek, attrs |-> <<>>]
               IN  /\ advance(t)
                   /\ IF TypeOf(Shifted(t)) = "start-attributes"
                        THEN Call([frame EXCEPT !.pc = "attrsRet"], attrsFrame(FALSE, <<>>))
                        ELSE Goto(frame)
          /\ UNCHANGED <<ret, inMixin>>
          /\ Quiet

parseFilter_attrsRet ==
  /\ At("parseFilter", "attrsRet")
  /\ Goto([Top EXCEPT !.pc = "body", !.attrs = ret.attrs])
  /\ ret' = Null
  /\ NoRead
  /\ UNCHANGED inMixin
  /\ Quiet

\* if (this.peek().type === 'text') { var textToken = this.advance(); ... }
parseFilter_text ==
  /\ At("parseFilter", "body")
  /\ PeekType = "text"
  /\ \E t \in NextTokens : advance(t)
  /\ Return(FilterNode(Top.tok, initBlock(peek.line, <<TextNode(peek.val, peek.line)>>),
                       Top.attrs))
  /\ UNCHANGED inMixin
  /\ Quiet

\* else if (this.peek().type === 'filter') block = this.initBlock(tok.line, [this.parseFilter()]);
parseFilter_filter ==
  /\ At("parseFilter", "body")
  /\ PeekType = "filter"
  /\ Call([Top EXCEPT !.pc = "filterRet"], Frame("parseFilter"))
  /\ NoRead
  /\ UNCHANGED <<ret, inMixin>>
  /\ Quiet

parseFilter_filterRet ==
  /\ At("parseFilter", "filterRet")
  /\ Return(FilterNode(Top.tok, initBlock(Top.tok.line, <<ret>>), Top.attrs))
  /\ NoRead
  /\ UNCHANGED inMixin
  /\ Quiet

\* else block = this.parseTextBlock() || this.emptyBlock(tok.line);
parseFilter_textBlock ==
  /\ At("parseFilter", "body")
  /\ PeekType \notin {"text", "filter"}
  /\ Call([Top EXCEPT !.pc = "textBlockRet"], Frame("parseTextBlock"))
  /\ NoRead
  /\ UNCHANGED <<ret, inMixin>>
  /\ Quiet

parseFilter_textBlockRet ==
  /\ At("parseFilter", "textBlockRet")
  /\ Return(FilterNode(Top.tok, IF ret = Undefined THEN emptyBlock(Top.tok.line) ELSE ret,
                       Top.attrs))
  /\ NoRead
  /\ UNCHANGED inMixin
  /\ Quiet

(***************************************************************************)
(* parseCase, parseWhen, parseDefault, parseBlockExpansion.                *)
(***************************************************************************)
parseCase_start ==
  /\ At("parseCase", "start")
  /\ IF PeekType # "case" THEN Throw("INVALID_TOKEN", peek)
     ELSE /\ \E t \in NextTokens : advance(t)
          /\ Goto([fn |-> "parseCase", pc |-> "indent", tok |-> peek,
                   block |-> emptyBlock(peek.line + 1)])
          /\ UNCHANGED <<ret, inMixin>>
          /\ Quiet

\* this.expect('indent');
parseCase_indent ==
  /\ At("parseCase", "indent")
  /\ IF PeekType # "indent" THEN Throw("INVALID_TOKEN", peek)
     ELSE /\ \E t \in NextTokens : advance(t)
          /\ Goto([Top EXCEPT !.pc = "loop"] @@ [mark |-> ConsumedNext])
          /\ UNCHANGED <<ret, inMixin>>
          /\ Quiet

\* case 'comment': case 'newline': this.advance();
parseCase_skip ==
  /\ At("parseCase", "loop")
  /\ PeekType \in {"comment", "newline"}
  /\ \E t \in NextTokens : advance(t)
  /\ Iterate(Top)
  /\ UNCHANGED <<ret, inMixin>>
  /\ Quiet

\* case 'when': block.nodes.push(this.parseWhen()); case 'default': ...this.parseDefault()
parseCase_branch ==
  /\ At("parseCase", "loop")
  /\ PeekType \in {"when", "default"}
  /\ Call([Top EXCEPT !.pc = "branchRet"],
          Frame(IF PeekType = "when" THEN "parseWhen" ELSE "parseDefault"))
  /\ NoRead
  /\ UNCHANGED <<ret, inMixin>>
  /\ Quiet

parseCase_branchRet ==
  /\ At("parseCase", "branchRet")
  /\ NoRead
  /\ Iterate([Top EXCEPT !.block.nodes = Append(@, ret)])
  /\ ret' = Null
  /\ UNCHANGED inMixin
  /\ Quiet

parseCase_unexpected ==
  /\ At("parseCase", "loop")
  /\ PeekType \notin {"outdent", "comment", "newline", "when", "default"}
  /\ Throw("INVALID_TOKEN", peek)

\* this.expect('outdent'); node.block = block; return node;
parseCase_outdent ==
  /\ At("parseCase", "loop")
  /\ PeekType = "outdent"
  /\ \E t \in NextTokens : advance(t)
  /\ Return([type |-> "Case", expr |-> Top.tok.val, line |-> Top.tok.line,
             block |-> Top.block])
  /\ UNCHANGED inMixin
  /\ Quiet

WhenNode(expr, line) == [type |-> "When", expr |-> expr, debug |-> FALSE, line |-> line]

\* a branch without a body when a newline follows the header
parseWhen_start ==
  /\ At("parseWhen", "start")
  /\ IF PeekType # "when" THEN Throw("INVALID_TOKEN", peek)
     ELSE /\ \E t \in NextTokens :
               /\ advance(t)
               /\ IF TypeOf(Shifted(t)) # "newline"
                    THEN /\ Call([fn |-> "parseWhen", pc |-> "blockRet", tok |-> peek],
                                 Frame("parseBlockExpansion"))
                         /\ UNCHANGED ret
                    ELSE Return(WhenNode(peek.val, peek.line))
          /\ UNCHANGED inMixin
          /\ Quiet

parseWhen_blockRet ==
  /\ At("parseWhen", "blockRet")
  /\ Return(WhenNode(Top.tok.val, Top.tok.line) @@ [block |-> ret])
  /\ NoRead
  /\ UNCHANGED inMixin
  /\ Quiet

parseDefault_start ==
  /\ At("parseDefault", "start")
  /\ IF PeekType # "default" THEN Throw("INVALID_TOKEN", peek)
     ELSE /\ \E t \in NextTokens : advance(t)
          /\ Call([fn |-> "parseDefault", pc |-> "blockRet", tok |-> peek],
                  Frame("parseBlockExpansion"))
          /\ UNCHANGED <<ret, inMixin>>
          /\ Quiet

parseDefault_blockRet ==
  /\ At("parseDefault", "blockRet")
  /\ Return(WhenNode("default", Top.tok.line) @@ [block |-> ret])
  /\ NoRead
  /\ UNCHANGED inMixin
  /\ Quiet

\* var tok = this.accept(':'); if (tok) ...[this.parseExpr()] else return this.block();
parseBlockExpansion_start ==
  /\ At("parseBlockExpansion", "start")
  /\ IF PeekType = ":"
       THEN /\ \E t \in NextTokens : advance(t)
            /\ Call([fn |-> "parseBlockExpansion", pc |-> "exprRet", line |-> peek.line],
                    exprFrame(ConsumedNext))
       ELSE /\ Call([Top EXCEPT !.pc = "blockRet"], Frame("block"))
            /\ NoRead
  /\ UNCHANGED <<ret, inMixin>>
  /\ Quiet

parseBlockExpansion_exprRet ==
  /\ At("parseBlockExpansion", "exprRet")
  /\ Return(initBlock(Top.line, <<ret>>))
  /\ NoRead
  /\ UNCHANGED inMixin
  /\ Quiet

parseBlockExpansion_blockRet ==
  /\ At("parseBlockExpansion", "blockRet")
  /\ Return(ret)
  /\ NoRead
  /\ UNCHANGED inMixin
  /\ Quiet

(***************************************************************************)
(* The specification.                                                      *)
(***************************************************************************)
Init ==
  /\ lexicon \in Families
  /\ \E s \in Lexicon(lexicon) : toks = <<Lexed(s, 1)>>
  /\ input = toks
  /\ stack = <<parseFrame>>
  /\ ret = Null
  /\ inMixin = 0
  /\ status = "running"
  /\ err = NoError
  /\ written = NoWrite

Next ==
  \/ parse_eos \/ parse_newline \/ parse_textHtml \/ parse_textHtmlRet
  \/ parse_expr \/ parse_exprRet
  \/ parseExpr_dispatch \/ parseExpr_textHtml \/ parseExpr_textHtmlRet
  \/ parseExpr_defer \/ parseExpr_unexpected \/ parseExpr_ret
  \/ block_indent \/ block_newline \/ block_textHtml \/ block_textHtmlRet
  \/ block_expr \/ block_exprRet \/ block_outdent
  \/ parseText_text \/ parseText_code \/ parseText_newline
  \/ parseText_interpolation \/ parseText_exprRet \/ parseText_return
  \/ parseCode_start \/ parseCode_blockRet
  \/ attrs_start \/ attrs_advance \/ attrs_attribute \/ attrs_defer \/ attrs_end
  \/ parseTextBlock_start \/ parseTextBlock_text \/ parseTextBlock_interpolation
  \/ parseTextBlock_exprRet \/ parseTextBlock_unexpected \/ parseTextBlock_end
  \/ tag_shorthand \/ tag_attrs \/ tag_attrsRet \/ tag_attributeBlock \/ tag_dot
  \/ tag_text \/ tag_textRet \/ tag_code \/ tag_codeRet \/ tag_colon \/ tag_colonRet
  \/ tag_slash \/ tag_unexpected \/ tag_newline \/ tag_textBlock \/ tag_textBlockRet
  \/ tag_block \/ tag_blockRet \/ tag_return
  \/ parseTag_start \/ parseTag_ret
  \/ parseInterpolation_start \/ parseInterpolation_ret
  \/ parseCall_start \/ parseCall_tagRet
  \/ parseTextHtml_text \/ parseTextHtml_blockRet \/ parseTextHtml_newline
  \/ parseTextHtml_return
  \/ parseDoctype_start \/ parseYield_start \/ parseMixinBlock_start
  \/ parseExtends_start \/ parseExtends_path \/ parseDot_start \/ parseDot_ret
  \/ parseComment_start \/ parseComment_textBlockRet
  \/ parseBlockCode_start \/ parseBlockCode_body \/ parseBlockCode_text
  \/ parseBlockCode_unexpected \/ parseBlockCode_end
  \/ parseConditional_start \/ parseConditional_consequentRet
  \/ parseConditional_newline \/ parseConditional_elseIf \/ parseConditional_else
  \/ parseConditional_alternateRet \/ parseConditional_return
  \/ parseWhile_start \/ parseWhile_blockRet
  \/ parseEach_start \/ parseEach_blockRet \/ parseEach_alternateRet
  \/ parseBlock_start \/ parseBlock_blockRet
  \/ parseMixin_start \/ parseMixin_blockRet
  \/ parseInclude_start \/ parseInclude_filter \/ parseInclude_filterRet
  \/ parseInclude_path \/ parseInclude_blockRet \/ parseInclude_ignoredRet
  \/ parseIncludeFilter_start \/ parseIncludeFilter_attrsRet
  \/ parseFilter_start \/ parseFilter_attrsRet \/ parseFilter_text
  \/ parseFilter_filter \/ parseFilter_filterRet \/ parseFilter_textBlock
  \/ parseFilter_textBlockRet
  \/ parseCase_start \/ parseCase_indent \/ parseCase_skip \/ parseCase_branch
  \/ parseCase_branchRet \/ parseCase_unexpected \/ parseCase_outdent
  \/ parseWhen_start \/ parseWhen_blockRet \/ parseDefault_start \/ parseDefault_blockRet
  \/ parseBlockExpansion_start \/ parseBlockExpansion_exprRet
  \/ parseBlockExpansion_blockRet

Spec == Init /\ [][Next]_vars

\* The parser runs on its own: a step that can be taken is taken.
FairSpec == Spec /\ WF_vars(Next)

(***************************************************************************)
(* Properties.                                                             *)
(***************************************************************************)
\* The running method returns in this step.
Returning(fn) ==
  /\ status = "running"
  /\ stack # <<>>
  /\ Top.fn = fn
  /\ status' = "running"
  /\ stack' = Popped

Failing(code) == status' = "error" /\ err'.code = code

\* parseCode reads a buffered code token and the token after it is an indent.
BufferedCodeBeforeIndent ==
  /\ At("parseCode", "start")
  /\ PeekType = "code"
  /\ peek.buffer
  /\ TypeOf(toks') = "indent"

HasName(attrs, n) == \E i \in 1..Len(attrs) : attrs[i].name = n

\* an attribute made of an id or class token; the attributes of a group are escaped
FromShorthand(a) == ~a.mustEscape

\* The token now read is a second id on the tag: an id token after an id token
\* or after an attribute named id, or an attribute named id after an id token.
SecondId ==
  \/ /\ At("tag", "loop")
     /\ PeekType = "id"
     /\ HasName(Top.tag.attrs, "id")
  \/ /\ At("attrs", "loop")
     /\ Top.hasNames
     /\ Top.tok.type = "attribute"
     /\ Top.tok.name = "id"
     /\ \E i \in 1..Len(Caller.tag.attrs) :
          Caller.tag.attrs[i].name = "id" /\ FromShorthand(Caller.tag.attrs[i])

\* C2, as stated: a second id on one tag aborts the parse with DUPLICATE_ID,
\* whichever of the id token and the attribute named id comes first.
C2_SecondIdIsDuplicateId ==
  [][SecondId => Failing("DUPLICATE_ID")]_vars

\* The indented body of at least one mixin definition is being parsed.
InMixinBody ==
  \E i \in 1..Len(stack) : stack[i].fn = "parseMixin" /\ stack[i].pc = "blockRet"

RECURSIVE ChainOf(_)
ChainOf(node) ==
  <<node>> \o (IF node.alternate.type = "Conditional" THEN ChainOf(node.alternate) ELSE <<>>)

\* The positions from p to last of the tokens of the given types that lie
\* outside every indented block opened from p on.
RECURSIVE Outermost(_, _, _, _, _)
Outermost(tokens, types, p, last, depth) ==
  IF p > last THEN <<>>
  ELSE LET t == tokens[p].type IN
       IF t = "indent" THEN Outermost(tokens, types, p + 1, last, depth + 1)
       ELSE IF t = "outdent" THEN Outermost(tokens, types, p + 1, last, depth - 1)
       ELSE IF depth = 0 /\ t \in types
         THEN <<p>> \o Outermost(tokens, types, p + 1, last, depth)
         ELSE Outermost(tokens, types, p + 1, last, depth)

\* The Conditional node is the chain of the if and else-if tokens read by
\* parseConditional, in source order and each with the test of its token; the
\* last alternate is as `terminal` says, given the position of the else read, if any.
ConditionalChain(node, tokens, last, terminal(_, _)) ==
  LET headers == Outermost(tokens, {"if", "else-if"}, node.line, last, 0)
      elses == Outermost(tokens, {"else"}, node.line, last, 0)
      chain == ChainOf(node)
  IN  /\ tokens[node.line].type = "if"
      /\ Len(chain) = Len(headers)
      /\ \A k \in 1..Len(chain) :
           /\ chain[k].type = "Conditional"
           /\ chain[k].line = headers[k]
           /\ chain[k].test = tokens[headers[k]].val
      /\ Len(elses) <= 1
      /\ terminal(chain[Len(chain)].alternate, elses)

\* a terminal else ends the chain with a Block, none leaves null
ElseGivesBlock(alternate, elses) ==
  IF elses # <<>> THEN alternate.type = "Block" ELSE alternate = Null

\* C4, as stated: an if followed by N else-if and a terminal else yields a
\* chain of N further Conditional nodes, in source order and each with its own
\* test, ended by a Block in the last alternate; without the else the last
\* alternate is null; no else-if or else of the chain is left in the stream.
C4_ElseEndsChainWithBlock ==
  [][Returning("parseConditional") =>
       /\ ConditionalChain(ret', input', Len(input') - Len(toks'), ElseGivesBlock)
       /\ TypeOf(toks') = "else-if" => Outermost(input', {"else"}, ret'.line, Len(input'), 0) # <<>>
    ]_vars

\* a terminal else followed by an indent ends the chain with the block of that
\* indent; no else, or an else without a block, leaves null
ElseWithBlockGivesBlock(tokens, alternate, elses) ==
  IF elses # <<>> /\ tokens[elses[1] + 1].type = "indent"
    THEN alternate.type = "Block" /\ alternate.line = elses[1] + 1
    ELSE alternate = Null

\* C4, amended: an if followed by N else-if yields a chain of N further
\* Conditional nodes, in source order and each with its own test.  The last
\* alternate is a Block when a terminal else followed by an indented block
\* ends the chain; it is null when there is no else and also when the else is
\* not followed by an indent.  A returning parseConditional leaves no else-if
\* in the stream unless it has read an else, and no else at all.
C4_ElseWithBlockEndsChain ==
  [][Returning("parseConditional") =>
       LET terminal(alternate, elses) == ElseWithBlockGivesBlock(input', alternate, elses) IN
       /\ ConditionalChain(ret', input', Len(input') - Len(toks'), terminal)
       /\ TypeOf(toks') = "else-if" =>
            Outermost(input', {"else"}, ret'.line, Len(input') - Len(toks'), 0) # <<>>
       /\ TypeOf(toks') = "else" =>
            Outermost(input', {"else"}, ret'.line, Len(input') - Len(toks'), 0) # <<>>
    ]_vars

\* an if with an else-if and an else with its block has been parsed
C4_Witness ==
  /\ status = "running"
  /\ ret.type = "Conditional"
  /\ Len(ChainOf(ret)) = 2
  /\ ChainOf(ret)[2].alternate.type = "Block"
  /\ input[ret.line + 1].type = "else-if"
  /\ input[ret.line + 2].type = "else"

\* The position of the outdent that closes the block opened at or after p.
RECURSIVE ClosingOutdent(_, _, _)
ClosingOutdent(tokens, p, depth) ==
  IF p > Len(tokens) THEN 0
  ELSE IF tokens[p].type = "indent" THEN ClosingOutdent(tokens, p + 1, depth + 1)
  ELSE IF tokens[p].type = "outdent"
    THEN IF depth = 1 THEN p ELSE ClosingOutdent(tokens, p + 1, depth - 1)
  ELSE ClosingOutdent(tokens, p + 1, depth)

NotBlank(piece) == piece # " "

\* the path without the blanks around it ends in the extension of the language
OwnExtension(path) ==
  LET name == SelectSeq(path, NotBlank) IN name # <<>> /\ name[Len(name)] = ".jade"

\* What parseInclude returns for the tokens include [filter]* path that start
\* at node.line, `last` being the last token consumed and `block` the value of
\* block() for the indented block after the path, if there is one.
IncludeResult(node, tokens, last, block) ==
  LET pathAt == CHOOSE p \in (node.line + 1)..Len(tokens) :
                  /\ tokens[p].type = "path"
                  /\ \A q \in (node.line + 1)..(p - 1) : tokens[q].type # "path"
      filters == Outermost(tokens, {"filter"}, node.line + 1, pathAt - 1, 0)
      hasBlock == tokens[pathAt + 1].type = "indent"
  IN  /\ tokens[node.line].type = "include"
      /\ node.file = [type |-> "FileReference", line |-> node.line,
                      path |-> SelectSeq(tokens[pathAt].val, NotBlank)]
      /\ last = IF hasBlock THEN ClosingOutdent(tokens, pathAt + 1, 0) ELSE pathAt
      /\ IF OwnExtension(tokens[pathAt].val)
           THEN /\ node.type = "Include"
                /\ DOMAIN node = {"type", "file", "line", "block"}
                /\ node.block = IF hasBlock THEN block ELSE emptyBlock(node.line)
                /\ hasBlock => block.type = "Block" /\ block.line = pathAt + 1
           ELSE /\ node.type = "RawInclude"
                /\ DOMAIN node = {"type", "file", "line", "filters"}
                /\ Len(node.filters) = Len(filters)
                /\ \A k \in 1..Len(filters) :
                     /\ node.filters[k].type = "IncludeFilter"
                     /\ node.filters[k].line = filters[k]
                     /\ node.filters[k].name = tokens[filters[k]].val

\* C5: for include [filter]* path, a path that ends in .jade gives an Include
\* node without filters whose block is the indented block that follows, or an
\* empty Block; any other path gives a RawInclude with every filter in source
\* order and no block, a following indented block being consumed through its
\* outdent and left out of the node without an error of its own.
C5_IncludeOrRawInclude ==
  [][/\ Returning("parseInclude") =>
          IncludeResult(ret', input', Len(input') - Len(toks'), ret)
     /\ At("parseInclude", "ignoredRet") =>
          /\ Returning("parseInclude")
          /\ ret.type = "Block"
    ]_vars

\* a raw include with a filter has been returned after its block was read
C5_Witness ==
  /\ status = "running"
  /\ ret.type = "RawInclude"
  /\ Len(ret.filters) >= 1
  /\ input[Len(input) - Len(toks)].type = "outdent"

\* A method that loops is back at the head of its loop after one more iteration.
Iterating ==
  /\ status = "running"
  /\ status' = "running"
  /\ Len(stack') = Len(stack)
  /\ HasField(Top, "mark")
  /\ stack'[Len(stack')].fn = Top.fn
  /\ stack'[Len(stack')].pc = "loop"

Halted == status \in {"done", "error"}

\* C6: the parse of a finite token sequence that ends with the end of the
\* stream halts, with the root Block or with an error.  Every loop iteration
\* and every call of the dispatcher that does not raise has consumed at least
\* one token more than it has pushed back; the stream is empty only while
\* attrs() holds the end of the stream, which it pushes back; and parse()
\* returns its Block in the step in which the end of the stream is the
\* current token.
C6_ParseHalts ==
  /\ [][/\ Iterating => Len(input') - Len(toks') > Top.mark
        /\ Returning("parseExpr") => Len(input') - Len(toks') > Top.entry
        /\ (At("parse", "loop") /\ PeekType = "eos") =>
             /\ status' = "done"
             /\ ret' = Top.block
             /\ toks' = toks
       ]_vars
  /\ [](status = "running" /\ toks = <<>> => At("attrs", "loop") /\ Top.tok.type = "eos")
  /\ <>Halted

\* parse() has returned the root Block of a file of MaxTokens tokens
C6_Witness ==
  /\ status = "done"
  /\ ret.type = "Block"
  /\ Len(ret.nodes) >= 2
  /\ Len(input) = MaxTokens + 1
  /\ input[Len(input)].type = "eos"

\* The positions from p to last of the tokens of the given types that lie
\* outside every interpolation #[...] opened from p on.
RECURSIVE OutsideInterpolation(_, _, _, _, _)
OutsideInterpolation(tokens, types, p, last, depth) ==
  IF p > last THEN <<>>
  ELSE LET t == tokens[p].type IN
       IF t = "start-jade-interpolation"
         THEN OutsideInterpolation(tokens, types, p + 1, last, depth + 1)
       ELSE IF t = "end-jade-interpolation"
         THEN OutsideInterpolation(tokens, types, p + 1, last, depth - 1)
       ELSE IF depth = 0 /\ t \in types
         THEN <<p>> \o OutsideInterpolation(tokens, types, p + 1, last, depth)
         ELSE OutsideInterpolation(tokens, types, p + 1, last, depth)

\* The fragment made of the text or interpolated-code token tok.
FragmentOf(tok) ==
  IF tok.type = "text" THEN [type |-> "Text", val |-> tok.val, line |-> tok.line]
  ELSE [type |-> "Code", val |-> tok.val, buffer |-> tok.buffer, mustEscape |-> TRUE,
        isInline |-> TRUE, line |-> tok.line]

\* The fragments are in token order, and every text and interpolated-code
\* token of the run, from position first to position last, has its fragment.
InTokenOrder(fragments, tokens, first, last) ==
  LET plain == OutsideInterpolation(tokens, {"text", "interpolated-code"}, first, last, 0) IN
  /\ \A i, j \in 1..Len(fragments) : i < j => fragments[i].line < fragments[j].line
  /\ \A i \in 1..Len(fragments) : fragments[i].line \in first..last
  /\ \A k \in 1..Len(plain) :
       \E i \in 1..Len(fragments) : fragments[i] = FragmentOf(tokens[plain[k]])

\* C7: a run of parseText with exactly one fragment returns the fragment
\* itself; a run with k # 1 fragments returns a Block whose nodes are the k
\* fragments in token order.  The tag builder adds the same fragments to the
\* body of the tag in both cases, so that the body never holds the Block the
\* run was wrapped in.
C7_SingleFragmentUnwrapped ==
  [][/\ Returning("parseText") =>
          LET fragments == Top.tags IN
          /\ InTokenOrder(fragments, input', Top.lineno, Len(input') - Len(toks'))
          /\ IF Len(fragments) = 1
               THEN ret' = fragments[1]
               ELSE ret' = [type |-> "Block", nodes |-> fragments, line |-> Top.lineno]
          /\ Caller.fn = "tag" =>
               /\ Caller.pc = "textRet"
               /\ fragments # <<>>
               /\ WithText(Caller.tag.block.nodes, ret') = Caller.tag.block.nodes \o fragments
               /\ Len(fragments) # 1 => ~Contains(WithText(Caller.tag.block.nodes, ret'), ret')
     /\ At("tag", "textRet") =>
          /\ status' = "running"
          /\ stack' = Replaced([Top EXCEPT !.pc = "newlines",
                                           !.tag.block.nodes = WithText(@, ret)])
    ]_vars

\* a tag has the single fragment of its text as its body, and the next tag has
\* received the two fragments of its text
C7_Witness ==
  /\ At("tag", "newlines")
  /\ Len(Top.tag.block.nodes) = 2
  /\ Top.tag.block.nodes[1].type = "Text"
  /\ Top.tag.block.nodes[2].type = "Code"
  /\ stack[1].block.nodes # <<>>
  /\ stack[1].block.nodes[1].type = "Tag"
  /\ Len(stack[1].block.nodes[1].block.nodes) = 1
  /\ stack[1].block.nodes[1].block.nodes[1].type = "Text"

\* a node built by tag(): a Tag, an InterpolatedTag or a mixin call
BuiltByTag(node) ==
  /\ node.type \in {"Tag", "InterpolatedTag", "Mixin"}
  /\ HasField(node, "attrs")

\* no name but class is the name of two attributes
OnlyClassRepeats(attrs) ==
  \A i, j \in 1..Len(attrs) : (i < j /\ attrs[i].name = attrs[j].name) => attrs[i].name = "class"

RECURSIVE AttributesFrom(_, _, _)
AttributesFrom(tokens, p, inGroup) ==
  IF p > Len(tokens) THEN <<>>
  ELSE LET tok == tokens[p] IN
       IF inGroup
         THEN IF tok.type = "attribute"
                THEN <<[name |-> tok.name, val |-> tok.val, mustEscape |-> tok.mustEscape]>>
                     \o AttributesFrom(tokens, p + 1, TRUE)
              ELSE IF tok.type = "end-attributes" THEN AttributesFrom(tokens, p + 1, FALSE)
              ELSE <<>>
       ELSE IF tok.type \in {"id", "class"}
         THEN <<[name |-> tok.type, val |-> "'" \o tok.val \o "'", mustEscape |-> FALSE]>>
              \o AttributesFrom(tokens, p + 1, FALSE)
       ELSE IF tok.type = "start-attributes" THEN AttributesFrom(tokens, p + 1, TRUE)
       ELSE IF tok.type = "&attributes" THEN AttributesFrom(tokens, p + 1, FALSE)
       ELSE <<>>

\* a token of the stream that the lexer has not delivered
Synthesized(tok) == tok.line > Len(input) \/ input[tok.line] # tok

\* C9: on an id or class token the dispatcher puts a tag token named div, on
\* the line of that token, before it and dispatches again, as if the lexer had
\* delivered the tag token: what it returns is what parseTag returns, a Tag
\* named div on that line whose attrs are the shorthand tokens and attributes
\* that follow, in order.  The tag token put in is read once, by parseTag, and
\* is in the stream at no other moment.
C9_ShorthandIsDiv ==
  /\ [][/\ (At("parseExpr", "start") /\ PeekType \in {"id", "class"}) =>
             /\ toks' = <<[type |-> "tag", val |-> "div", line |-> peek.line]>> \o toks
             /\ input' = input
             /\ status' = "running"
             /\ Len(stack') = Len(stack) + 1
             /\ stack'[Len(stack')] = exprFrame(Len(input') - Len(toks'))
        /\ (At("parseExpr", "start") /\ Synthesized(peek)) =>
             /\ stack'[Len(stack')] = Frame("parseTag")
             /\ toks' = toks
        /\ (At("parseTag", "start") /\ Synthesized(peek)) =>
             /\ toks' = Tail(toks)
             /\ input' = input
        /\ (Returning("parseExpr") /\ Top.pc = "deferred") =>
             LET first == Top.entry + 1 IN
             /\ input[first].type \in {"id", "class"}
             /\ ret' = ret
             /\ ret.type = "Tag"
             /\ ret.name = "div"
             /\ ret.line = input[first].line
             /\ ret.attrs = AttributesFrom(input, first, FALSE)
             /\ Len(input') - Len(toks') >= first + Len(ret.attrs) - 1
       ]_vars
  /\ [](\A i \in 1..Len(toks) :
          Synthesized(toks[i]) =>
            /\ i = 1
            /\ toks[i] = [type |-> "tag", val |-> "div", line |-> toks[2].line]
            /\ toks[2].type \in {"id", "class"}
            /\ status = "running"
            /\ Top.pc = "start"
            /\ Top.fn \in {"parseExpr", "parseTag"})

\* the class tokens .a and .b without a tag have given a div with two class attributes
C9_Witness ==
  /\ status = "running"
  /\ ret.type = "Tag"
  /\ ret.name = "div"
  /\ input[ret.line].type = "class"
  /\ input[ret.line + 1].type = "class"
  /\ ret.attrs = <<[name |-> "class", val |-> Quoted(input[ret.line].val), mustEscape |-> FALSE],
                   [name |-> "class", val |-> Quoted(input[ret.line + 1].val),
                    mustEscape |-> FALSE]>>

\* What parseEach returns for the each token at node.line, `last` being the
\* last token consumed and `block` the value of the last block() it has called.
EachResult(node, tokens, last, block) ==
  LET header == tokens[node.line]
      bodyAt == node.line + 1
      closing == ClosingOutdent(tokens, bodyAt, 0)
  IN  /\ header.type = "each"
      /\ node.type = "Each"
      /\ node.obj = header.code /\ node.val = header.val /\ node.key = header.key
      /\ tokens[bodyAt].type = "indent"
      /\ node.block.type = "Block"
      /\ node.block.line = bodyAt
      /\ closing > bodyAt
      /\ IF tokens[closing + 1].type = "else"
           THEN /\ closing + 2 <= Len(tokens)
                /\ tokens[closing + 2].type = "indent"
                /\ DOMAIN node = {"type", "obj", "val", "key", "block", "line", "alternate"}
                /\ node.alternate = block
                /\ block.type = "Block"
                /\ block.line = closing + 2
                /\ last = ClosingOutdent(tokens, closing + 2, 0)
           ELSE /\ DOMAIN node = {"type", "obj", "val", "key", "block", "line"}
                /\ node.block = block
                /\ last = closing

\* C10: an each token is followed by an indented block, or the parse is
\* aborted with INVALID_TOKEN on the token that follows.  When an else and an
\* indented block follow the body, that block is the alternate of the Each
\* node; when no else follows, the node has no alternate and the token after
\* the outdent of the body is still the current token when parseEach returns.
C10_EachBlockAndAlternate ==
  [][/\ (At("parseEach", "start") /\ PeekType = "each") =>
          /\ status' = "running"
          /\ stack'[Len(stack')] = Frame("block")
          /\ Len(stack') = Len(stack) + 1
     /\ (At("block", "start") /\ Caller.fn = "parseEach" /\ Caller.pc = "blockRet") =>
          /\ peek = input[Caller.tok.line + 1]
          /\ IF PeekType = "indent" THEN status' = "running"
             ELSE Failing("INVALID_TOKEN") /\ err'.line = peek.line /\ err'.type = peek.type
     /\ Returning("parseEach") =>
          /\ EachResult(ret', input', Len(input') - Len(toks'), ret)
          /\ toks' = toks
          /\ ~HasField(ret', "alternate") => PeekType # "else"
    ]_vars

\* an each with its body, an else and the block of the else has been parsed
C10_Witness ==
  /\ status = "running"
  /\ ret.type = "Each"
  /\ HasField(ret, "alternate")
  /\ ret.alternate.type = "Block"
  /\ input[ret.alternate.line - 1].type = "else"

\* The positions of the branch headers of the case at node.line: the when and
\* default tokens inside its indented block and outside every nested block.
BranchHeaders(tokens, node) ==
  Outermost(tokens, {"when", "default"}, node.line + 2,
            ClosingOutdent(tokens, node.line + 1, 0) - 1, 0)

\* the header at h has no body: a newline or the closing outdent follows it
Bodiless(tokens, h) == tokens[h + 1].type \in {"newline", "outdent"}

\* node is the When node of the branch header at h
BranchNode(node, tokens, h) ==
  /\ node.type = "When"
  /\ node.line = h
  /\ node.expr = (IF tokens[h].type = "default" THEN "default" ELSE tokens[h].val)
  /\ HasField(node, "block") <=> tokens[h + 1].type \in {":", "indent"}
  /\ HasField(node, "block") => node.block.type = "Block"

\* node is the Case node of the case token at node.line: one When node for
\* every branch header, in source order
CaseResult(node, tokens) ==
  LET headers == BranchHeaders(tokens, node) IN
  /\ node.type = "Case"
  /\ tokens[node.line].type = "case"
  /\ node.expr = tokens[node.line].val
  /\ node.block.type = "Block"
  /\ Len(node.block.nodes) = Len(headers)
  /\ \A k \in 1..Len(headers) : BranchNode(node.block.nodes[k], tokens, headers[k])

\* An error is raised on the token that follows a branch header without a body.
BodilessBranchFails ==
  /\ status' = "error"
  /\ \E i \in 1..Len(stack) :
       /\ stack[i].fn \in {"parseWhen", "parseDefault"}
       /\ HasField(stack[i], "tok")
       /\ err'.line = stack[i].tok.line + 1
       /\ Bodiless(input, stack[i].tok.line)

\* Every branch of a case yields its When node, and a token at branch level
\* that opens no branch aborts the parse with INVALID_TOKEN on that token.
CaseBranches ==
  /\ Returning("parseCase") => CaseResult(ret', input')
  /\ \A fn \in {"parseWhen", "parseDefault"} :
       Returning(fn) => BranchNode(ret', input', ret'.line)
  /\ (At("parseCase", "loop")
        /\ PeekType \notin {"when", "default", "comment", "newline", "outdent"}) =>
       /\ Failing("INVALID_TOKEN")
       /\ err'.type = PeekType
       /\ err'.line = peek.line

\* C11: inside the indented block of a case every when or default branch
\* yields exactly one When node, in source order; a branch whose header is
\* followed by a newline or by the closing outdent yields a When node without
\* a block and raises no error; any token at branch level other than when,
\* default, comment or newline aborts the parse with INVALID_TOKEN.
C11_BranchesYieldWhenNodes ==
  [][CaseBranches /\ ~BodilessBranchFails]_vars

\* The tokens of the stream that the lexer delivered, without a token put in
\* front of them by the dispatcher.
Unread == IF toks # <<>> /\ Synthesized(Head(toks)) THEN Tail(toks) ELSE toks

\* The stream is the input from the first unread token on: no token of the
\* input is lost, repeated or out of its place.
StreamIsInput ==
  /\ Len(Unread) <= Len(input)
  /\ Unread = SubSeq(input, Len(input) - Len(Unread) + 1, Len(input))

\* The position of the start-attributes token of the group whose attribute
\* tokens end before position k: the last token before k that is no attribute.
GroupStart(tokens, k) ==
  CHOOSE p \in 0..(k - 1) :
    /\ p > 0 => tokens[p].type # "attribute"
    /\ \A q \in (p + 1)..(k - 1) : tokens[q].type = "attribute"

\* the attributes of the attribute tokens from position p to position q, in order
GroupAttributes(tokens, p, q) ==
  [k \in 1..(q - p + 1) |->
     [name |-> tokens[p + k - 1].name, val |-> tokens[p + k - 1].val,
      mustEscape |-> tokens[p + k - 1].mustEscape]]

\* A step puts a token back into the stream.
Deferring == input' = input /\ Len(toks') = Len(toks) + 1

\* C12: a token put back with defer is the current token from then on, before
\* every token not yet read, and the next advance takes it out of the stream
\* without asking the lexer.  attrs() puts back the first token after the
\* attributes it has read; it then returns the attributes of the group in
\* order, having consumed start-attributes, the attribute tokens and
\* end-attributes, with the token that follows end-attributes in the input as
\* the current token; when the token put back is not end-attributes the parse
\* is aborted with INVALID_TOKEN on that token.  The stream is at all times
\* the input from the first unread token on.
C12_DeferredTokenIsNext ==
  /\ [](StreamIsInput)
  /\ [][/\ Deferring => Tail(toks') = toks
        /\ (Deferring /\ Top.fn = "attrs") =>
             /\ Head(toks') = input[Len(input) - Len(toks)]
             /\ Head(toks').type # "attribute"
             /\ stack'[Len(stack')].pc = "end"
        /\ (Len(toks) > 1 /\ toks' # toks) => toks' = Tail(toks) /\ input' = input
        /\ At("attrs", "end") =>
             LET k == Len(input) - Len(toks) + 1
                 start == GroupStart(input, k)
             IN  /\ start > 0
                 /\ input[start].type = "start-attributes"
                 /\ peek = input[k]
                 /\ IF input[k].type = "end-attributes"
                      THEN /\ Returning("attrs")
                           /\ ret'.attrs = GroupAttributes(input, start + 1, k - 1)
                           /\ Len(input') - Len(toks') = k
                           /\ k + 1 <= Len(input')
                           /\ toks' = <<input'[k + 1]>>
                      ELSE /\ Failing("INVALID_TOKEN")
                           /\ err'.type = input[k].type
                           /\ err'.line = input[k].line
       ]_vars

\* attrs() has returned two attributes and the token after end-attributes is current
C12_Witness ==
  /\ status = "running"
  /\ ret.type = "attrs"
  /\ Len(ret.attrs) = 2
  /\ Len(toks) = 1
  /\ Len(input) >= 2
  /\ input[Len(input) - 1].type = "end-attributes"
  /\ peek = input[Len(input)]

\* C13: a node that a method has returned is changed by no later step.  The
\* nodes a method still builds (the root Block in parse(), the body of a tag
\* in tag()) are its own and no method has returned them: the only nodes a
\* method can reach that another method has returned are those it received
\* from its callees, so the claim is that no method assigns to such a node.
C13_ReturnedNodesUnchanged == written = NoWrite

\* The number of mixin definitions whose body is being parsed: the calls of
\* parseMixin that wait for their block().
BodiesInProgress ==
  Cardinality({i \in 1..Len(stack) : stack[i].fn = "parseMixin" /\ stack[i].pc = "blockRet"})

\* parseMixin reads the header of a definition: an indent follows the mixin token.
EnteringDefinition ==
  /\ At("parseMixin", "start")
  /\ PeekType = "mixin"
  /\ status' = "running"
  /\ input'[Len(input')].type = "indent"

\* C14: the counter inMixin is 0 when the parser is built and never negative;
\* while the parse runs and when it has returned, it is the number of mixin
\* definitions whose body is being parsed; it is 0 whenever parse() is at the
\* head of its loop and when parse() has returned.  It changes only when
\* parseMixin enters the body of a definition (by +1) and when parseMixin
\* returns the definition (by -1): neither parseCall nor parseMixin on a mixin
\* token without an indented body changes it.
C14_CounterIsNestingDepth ==
  /\ inMixin = 0
  /\ [](/\ inMixin >= 0
        /\ status # "error" => inMixin = BodiesInProgress
        /\ At("parse", "loop") => inMixin = 0
        /\ status = "done" => inMixin = 0)
  /\ [][/\ inMixin' # inMixin =>
             \/ EnteringDefinition /\ inMixin' = inMixin + 1
             \/ Returning("parseMixin") /\ Top.pc = "blockRet" /\ inMixin' = inMixin - 1
        /\ (Returning("parseMixin") /\ Top.pc = "start") =>
             /\ ret'.call
             /\ inMixin' = inMixin
        /\ (status = "running" /\ Top.fn = "parseCall") => inMixin' = inMixin
       ]_vars

\* parse() has returned a definition whose body holds another definition
C14_Witness ==
  /\ status = "done"
  /\ inMixin = 0
  /\ Len(ret.nodes) = 1
  /\ ret.nodes[1].type = "Mixin"
  /\ ~ret.nodes[1].call
  /\ Len(ret.nodes[1].block.nodes) = 1
  /\ ret.nodes[1].block.nodes[1].type = "Mixin"
  /\ ~ret.nodes[1].block.nodes[1].call

=============================================================================
